---- MODULE Spec2Model ----
(***************************************************************************)
(* Job processing engine of yt-clipper: the file-backed job store          *)
(* (jobQueue.ts), the pipeline that drives yt-dlp and ffmpeg               *)
(* (videoProcessor.ts), and the server functions submit / getStatus /      *)
(* cancel (video.fn.ts).                                                   *)
(*                                                                         *)
(* Strings the code takes apart (times, job ids) are sequences of          *)
(* one-character strings; URLs are sequences of the tokens the URL         *)
(* regular expressions distinguish.  Node runs every callback to           *)
(* completion, so one action is one callback: the code from one await (or  *)
(* event) to the next.                                                     *)
(***************************************************************************)
EXTENDS Integers, Sequences, FiniteSets, TLC

(***************************************************************************)
(* Bounds of the model.                                                    *)
(***************************************************************************)
\* Number of submit calls in one behaviour.
MaxSubmits == 2

(***************************************************************************)
(* Character strings.                                                      *)
(***************************************************************************)
Digits == <<"0", "1", "2", "3", "4", "5", "6", "7", "8", "9">>

IsDigit(c) == \E i \in 1..10 : Digits[i] = c

DigitVal(c) == (CHOOSE i \in 1..10 : Digits[i] = c) - 1

AllDigits(s) == \A i \in 1..Len(s) : IsDigit(s[i])

\* Number("07") = 7: the value of a string of decimal digits.
RECURSIVE ToNumber(_)
ToNumber(s) ==
    IF Len(s) = 0 THEN 0
    ELSE 10 * ToNumber(SubSeq(s, 1, Len(s) - 1)) + DigitVal(s[Len(s)])

\* s.split(sep): the pieces of s between the occurrences of the character sep.
RECURSIVE Split(_, _)
Split(s, sep) ==
    IF \A i \in 1..Len(s) : s[i] # sep THEN <<s>>
    ELSE LET k == CHOOSE i \in 1..Len(s) :
                      s[i] = sep /\ \A j \in 1..(i - 1) : s[j] # sep
         IN <<SubSeq(s, 1, k - 1)>> \o Split(SubSeq(s, k + 1, Len(s)), sep)

\* s.replace(/:/g, "-")
ReplaceColons(s) == [i \in 1..Len(s) |-> IF s[i] = ":" THEN "-" ELSE s[i]]

\* padStart that leaves the string as it is.
PadStart2None(s) == s

\* s.padStart(2, "0")
PadStart2(s) ==
    IF Len(s) >= 2 THEN s
    ELSE IF Len(s) = 1 THEN <<"0">> \o s
    ELSE <<"0", "0">>

(***************************************************************************)
(* validation.ts                                                           *)
(***************************************************************************)
NoMatch == <<>>

\* ([0-1]?\d|2[0-3])
HoursGroup(h) ==
    /\ AllDigits(h)
    /\ \/ Len(h) = 1
       \/ Len(h) = 2 /\ h[1] \in {"0", "1"}
       \/ Len(h) = 2 /\ h[1] = "2" /\ h[2] \in {"0", "1", "2", "3"}

\* ([0-5]?\d)
MinutesGroup(m) ==
    /\ AllDigits(m)
    /\ \/ Len(m) = 1
       \/ Len(m) = 2 /\ DigitVal(m[1]) <= 5

\* ([0-5]\d)
SecondsGroup(s) == AllDigits(s) /\ Len(s) = 2 /\ DigitVal(s[1]) <= 5

\* time.match(timeRegex): the three groups <<hours, minutes, seconds>> (hours
\* is the empty string when the optional group did not take part), or NoMatch.
timeRegex(time) ==
    LET parts == Split(time, ":")
    IN IF Len(parts) = 2 /\ MinutesGroup(parts[1]) /\ SecondsGroup(parts[2])
         THEN <<<<>>, parts[1], parts[2]>>
       ELSE IF /\ Len(parts) = 3
               /\ HoursGroup(parts[1])
               /\ MinutesGroup(parts[2])
               /\ SecondsGroup(parts[3])
         THEN <<parts[1], parts[2], parts[3]>>
       ELSE NoMatch

normalizeTime(time) ==
    LET match == timeRegex(time)
    IN IF match = NoMatch THEN time
       ELSE LET hours == IF match[1] = <<>> THEN <<"0", "0">> ELSE match[1]
            IN PadStart2(hours) \o <<":">> \o PadStart2(match[2])
                   \o <<":">> \o PadStart2(match[3])

\* hours * 3600 + minutes * 60 + seconds of an "HH:MM:SS" string
HmsToSeconds(time) ==
    LET parts == Split(time, ":")
    IN ToNumber(parts[1]) * 3600 + ToNumber(parts[2]) * 60 + ToNumber(parts[3])

timeToSeconds(time) == HmsToSeconds(normalizeTime(time))


(***************************************************************************)
(* URLs, as the tokens youtubeUrlRegex and extractVideoIdFromUrl tell      *)
(* apart: scheme, "www.", host and path form, video id, query.             *)
(***************************************************************************)
Schemes == {"http://", "https://"}

\* youtube\.com\/(watch\?v=|embed\/|v\/|live\/|shorts\/)|youtu\.be\/
HostForms ==
    {"youtube.com/watch?v=", "youtube.com/embed/", "youtube.com/v/",
     "youtube.com/live/", "youtube.com/shorts/", "youtu.be/"}

\* [\w-]{11}
VideoIdTokens == {"dQw4w9WgXcQ", "ABCDEFGHIJK"}

\* ([?&].*)
QueryTokens == {"&t=10", "?si=x"}

\* url.match(youtubeUrlRegex) is not null
youtubeUrlRegex(url) ==
    LET a == IF Len(url) >= 1 /\ url[1] \in Schemes THEN 2 ELSE 1
        b == IF Len(url) >= a /\ url[a] = "www." THEN a + 1 ELSE a
    IN /\ Len(url) >= b + 1
       /\ url[b] \in HostForms
       /\ url[b + 1] \in VideoIdTokens
       /\ \/ Len(url) = b + 1
          \/ Len(url) = b + 2 /\ url[b + 2] \in QueryTokens

NoVideoId == "null"

\* The first place in url where one of the six path forms is followed by
\* eleven id characters; the id found there, or null.
extractVideoIdFromUrl(url) ==
    LET hits == {i \in 1..(Len(url) - 1) :
                     url[i] \in HostForms /\ url[i + 1] \in VideoIdTokens}
    IN IF hits = {} THEN NoVideoId
       ELSE url[(CHOOSE i \in hits : \A j \in hits : i <= j) + 1]

\* utils.ts extractVideoId, used by the pipeline for the same purpose.
extractVideoId(url) == extractVideoIdFromUrl(url)

\* inputSchema: the parsed and transformed data, or <<>> when validation fails.
inputSchema(input) ==
    IF /\ youtubeUrlRegex(input.url)
       /\ timeRegex(input.start) # NoMatch
       /\ timeRegex(input.end) # NoMatch
       /\ timeToSeconds(input.end) > timeToSeconds(input.start)
    THEN <<[url |-> input.url, formatId |-> input.formatId,
            start |-> normalizeTime(input.start),
            end |-> normalizeTime(input.end),
            dryRun |-> input.dryRun]>>
    ELSE <<>>

(***************************************************************************)
(* Requests the callers make.                                              *)
(***************************************************************************)
WatchUrl == <<"https://", "www.", "youtube.com/watch?v=", "dQw4w9WgXcQ">>
ShortUrl == <<"https://", "youtu.be/", "dQw4w9WgXcQ", "?si=x">>
OtherUrl == <<"https://", "vimeo.com/", "dQw4w9WgXcQ">>

NoFormat == ""

T_0_10 == <<"0", ":", "1", "0">>
T_00_00_10 == <<"0", "0", ":", "0", "0", ":", "1", "0">>
T_0_30 == <<"0", ":", "3", "0">>
T_00_00_30 == <<"0", "0", ":", "0", "0", ":", "3", "0">>
T_0_00 == <<"0", ":", "0", "0">>
T_17_26 == <<"1", "7", ":", "2", "6">>

RawInputs ==
    {[url |-> WatchUrl, start |-> T_0_10, end |-> T_0_30, formatId |-> NoFormat],
     [url |-> WatchUrl, start |-> T_00_00_10, end |-> T_00_00_30, formatId |-> NoFormat],
     [url |-> ShortUrl, start |-> T_00_00_10, end |-> T_00_00_30, formatId |-> "18"],
     [url |-> WatchUrl, start |-> T_0_00, end |-> T_17_26, formatId |-> NoFormat],
     [url |-> WatchUrl, start |-> T_0_30, end |-> T_0_10, formatId |-> NoFormat],
     [url |-> OtherUrl, start |-> T_0_10, end |-> T_0_30, formatId |-> NoFormat]}

\* Every request as a real run, and one of them as a dry run too.
Inputs ==
    {[url |-> r.url, start |-> r.start, end |-> r.end, formatId |-> r.formatId,
      dryRun |-> FALSE] : r \in RawInputs}
    \cup {[url |-> WatchUrl, start |-> T_0_10, end |-> T_0_30,
           formatId |-> NoFormat, dryRun |-> TRUE]}

\* inputSchema applied to each request.
Parsed == [i \in Inputs |-> inputSchema(i)]

ValidInputs == {i \in Inputs : Parsed[i] # <<>>}

(***************************************************************************)
(* jobQueue.ts: job ids and the job store.  The store is the directory     *)
(* data/jobs: a function from the ids that have a file to the record in    *)
(* the file.                                                               *)
(***************************************************************************)
\* generateJobId without the deterministic branch.
generateJobIdRandom(url, start, end, nonce) == <<"job_", nonce>>

\* nonce stands for `${Date.now()}_${Math.random()...}`, which differs from
\* one call to the next.
generateJobId(url, start, end, nonce) ==
    LET videoId == extractVideoIdFromUrl(url)
        startSafe == ReplaceColons(start)
        endSafe == ReplaceColons(end)
    IN IF videoId = NoVideoId THEN <<"job_", nonce>>
       ELSE <<videoId, "_clip_">> \o startSafe \o <<"_to_">> \o endSafe

JobIds ==
    {generateJobId(Parsed[i][1].url, Parsed[i][1].start, Parsed[i][1].end, "") :
        i \in ValidInputs}

\* getJob: the record as a sequence of length 0 (null) or 1.
getJob(js, jobId) == IF jobId \in DOMAIN js THEN <<js[jobId]>> ELSE <<>>

saveJob(js, job) ==
    [x \in DOMAIN js \cup {job.id} |-> IF x = job.id THEN job ELSE js[x]]

\* Object.assign(job, updates)
ObjectAssign(job, updates) ==
    [f \in DOMAIN job |-> IF f \in DOMAIN updates THEN updates[f] ELSE job[f]]

\* updateJobStatus without the "if (!job) return null" guard.
updateJobStatusUpsert(js, jobId, status, updates) ==
    LET job == getJob(js, jobId)
        blank == [id |-> jobId, status |-> status, url |-> <<>>,
                  startTime |-> <<>>, endTime |-> <<>>, formatId |-> "",
                  progress |-> 0, metadata |-> <<>>, downloadedFile |-> <<>>,
                  clippedFile |-> <<>>, error |-> <<>>, dryRun |-> FALSE,
                  expiresAt |-> 0, gen |-> 0]
    IN saveJob(js, ObjectAssign(IF job = <<>> THEN blank
                                ELSE [job[1] EXCEPT !.status = status], updates))

updateJobStatus(js, jobId, status, updates) ==
    LET job == getJob(js, jobId)
    IN IF job = <<>> THEN js
       ELSE saveJob(js, ObjectAssign([job[1] EXCEPT !.status = status], updates))

\* deleteJob without the unlink.
deleteJobKeep(js, jobId) == js

deleteJob(js, jobId) == [x \in DOMAIN js \ {jobId} |-> js[x]]

\* 48 hours, in milliseconds.
EXPIRY_DURATION == 172800000

\* The job object createJob builds at time dateNow (Date.now()); gen (the
\* number of the submit that built it) is not a field of the code's record:
\* it tells successive records of one id apart.
NewJob(data, metadata, gen, dateNow) ==
    [id |-> generateJobId(data.url, data.start, data.end, Digits[gen + 1]),
     status |-> "pending",
     url |-> data.url,
     startTime |-> data.start,
     endTime |-> data.end,
     formatId |-> data.formatId,
     progress |-> 0,
     metadata |-> metadata,
     downloadedFile |-> <<>>,
     clippedFile |-> <<>>,
     error |-> <<>>,
     dryRun |-> data.dryRun,
     expiresAt |-> dateNow + EXPIRY_DURATION,
     gen |-> gen]

createJob(js, data, metadata, gen, dateNow) ==
    saveJob(js, NewJob(data, metadata, gen, dateNow))

\* isJobExpired counting the deadline itself as past.
isJobExpiredAtDeadline(job, dateNow) == dateNow >= job.expiresAt

isJobExpired(job, dateNow) == dateNow > job.expiresAt

\* getAllJobs: the records of all the files in data/jobs.
getAllJobs(js) == {js[id] : id \in DOMAIN js}


(***************************************************************************)
(* videoProcessor.ts: paths and files.  A path is the sequence of its      *)
(* directory and the parts of its file name; the file system is the set of *)
(* paths that exist.                                                       *)
(***************************************************************************)
DOWNLOADS_DIR == "public/downloads/"
CLIPS_DIR == "public/clips/"

\* In the order the Set is built, which is the order it is iterated in.
VIDEO_EXTENSIONS ==
    <<".mp4", ".webm", ".mkv", ".flv", ".avi", ".mov", ".3gp", ".m4v">>

\* The container the fetcher writes in this model, and the name part that
\* marks the file of a single stream it merges from.
FetchExt == ".mp4"
StreamTag == ".f137"

basename(path) == SubSeq(path, 2, Len(path))
extname(path) == path[Len(path)]
\* path.basename(p, path.extname(p))
basenameNoExt(path) == SubSeq(path, 2, Len(path) - 1)

existsSync(files, path) == path \in files
readdirSync(fs, dir) == {basename(f) : f \in {x \in fs : x[1] = dir}}

\* The file system once a tool has written the file made (<<>>: none).
AddFile(files, made) == IF made = <<>> THEN files ELSE files \cup {made}

DownloadName(videoId, ext) == <<videoId, "_download", ext>>

\* findExistingVideo that never finds a file.
findExistingVideoNone(fs, videoId) == <<>>

findExistingVideo(fs, videoId) ==
    LET files == readdirSync(fs, DOWNLOADS_DIR)
        hits == {i \in 1..Len(VIDEO_EXTENSIONS) :
                     DownloadName(videoId, VIDEO_EXTENSIONS[i]) \in files}
    IN IF hits = {} THEN <<>>
       ELSE <<DOWNLOADS_DIR>> \o
              DownloadName(videoId,
                           VIDEO_EXTENSIONS[CHOOSE i \in hits : \A j \in hits : i <= j])

\* mockData.ts
generateMockDownloadPath(videoId) == <<"/downloads/", videoId, "_download", ".mp4">>

generateMockClipPath(videoId, startTime, endTime) ==
    <<"/clips/", videoId, "_download_clip_">> \o ReplaceColons(startTime)
        \o <<"_to_">> \o ReplaceColons(endTime) \o <<".mp4">>

\* Sum of the character codes of the video id.
CharCodeSum == [v \in VideoIdTokens |-> IF v = "dQw4w9WgXcQ" THEN 986 ELSE 770]
MockDurationBase == 60
MockDurationSpan == 1740
generateMockDuration(videoId) ==
    MockDurationBase + (CharCodeSum[videoId] % MockDurationSpan)

\* What yt-dlp --dump-json reports as the duration of the video, in seconds.
RealDuration == [v \in VideoIdTokens |-> IF v = "dQw4w9WgXcQ" THEN 1047 ELSE 212]

\* The name clipVideo gives its output.
ClipOutputFile(inputFile, startTime, endTime) ==
    <<CLIPS_DIR>> \o basenameNoExt(inputFile) \o <<"_clip_">>
        \o ReplaceColons(startTime) \o <<"_to_">> \o ReplaceColons(endTime)
        \o <<extname(inputFile)>>

\* "/downloads/" + path.basename(file)
PublicDownload(file) == <<"/downloads/">> \o basename(file)
PublicClip(file) == <<"/clips/">> \o basename(file)

\* path.join(process.cwd(), "public", ref) for a reference a record holds.
PublicPath(ref) == <<"public" \o ref[1]>> \o Tail(ref)

\* fs.unlinkSync(path) in the sweep: it throws when the file is missing, and
\* the throw leaves the loop for the catch block.
unlinkSync(st, path) ==
    IF path \in st.fs THEN [st EXCEPT !.fs = @ \ {path}]
    ELSE [st EXCEPT !.threw = TRUE]

\* if (fs.existsSync(path)) fs.unlinkSync(path), for a reference that is set.
UnlinkReferenced(st, ref) ==
    IF st.threw \/ ref = <<>> THEN st
    ELSE IF existsSync(st.fs, PublicPath(ref)) THEN unlinkSync(st, PublicPath(ref))
    ELSE st

\* The body of cleanupExpiredJobs' loop for one job of the list it read.
CleanupJob(st, job, dateNow) ==
    IF st.threw \/ ~isJobExpired(job, dateNow) THEN st
    ELSE LET s1 == IF job.id \in DOMAIN st.jobs
                     THEN [st EXCEPT !.jobs = [x \in DOMAIN @ \ {job.id} |-> @[x]]]
                   ELSE st
             s2 == UnlinkReferenced(s1, job.downloadedFile)
         IN UnlinkReferenced(s2, job.clippedFile)

RECURSIVE CleanupLoop(_, _, _)
CleanupLoop(todo, st, dateNow) ==
    IF todo = {} THEN st
    ELSE LET job == CHOOSE j \in todo : TRUE
         IN CleanupLoop(todo \ {job}, CleanupJob(st, job, dateNow), dateNow)

\* cleanupExpiredJobs() run at time dateNow on the store js and the files:
\* what it leaves, and whether it ended in its catch block.
cleanupExpiredJobs(js, files, dateNow) ==
    CleanupLoop(getAllJobs(js), [jobs |-> js, fs |-> files, threw |-> FALSE],
                dateNow)

COMPLETED_CLEANUP_MS == 5000
FAILED_CLEANUP_MS == 30000

ExitCodes == {0, 1}
\* yt-dlp percentages, in tenths of a percent: 50.5%, 100.0%.
Percents == {505, 1000}
\* floor(parseFloat(p) / 2), p in tenths of a percent
DownloadProgress(tenths) == tenths \div 20

\* Elapsed seconds in ffmpeg's time= marker.
Elapsed == {10, 40}
\* The clip progress without Math.min(..., 1).
ClipProgressUncapped(currentSeconds, durationSeconds) ==
    ((currentSeconds * 45) \div durationSeconds) + 50

\* floor(min(currentSeconds / durationSeconds, 1) * 45) + 50
ClipProgress(currentSeconds, durationSeconds) ==
    IF currentSeconds >= durationSeconds THEN 45 + 50
    ELSE ((currentSeconds * 45) \div durationSeconds) + 50

MsgNoYtDlp == <<"yt-dlp is not installed. Please install it first.">>
MsgNoFfmpeg == <<"ffmpeg is not installed. Please install it first.">>
MsgNoVideoId == <<"Could not extract video ID from URL">>
MsgCancelled == <<"Job cancelled by user">>
MsgDownloadNotFound == <<"Download completed but file not found">>
MsgYtDlpExit(code) == <<"yt-dlp exited with code ", Digits[code + 1]>>
\* The spawn error reported with the words of an exit with code 1.
MsgSpawnAsExit == MsgYtDlpExit(1)

\* error.message of the 'error' event of a yt-dlp that could not be started.
MsgSpawnYtDlp == <<"spawn yt-dlp ENOENT">>
MsgMetaSpawn == <<"Failed to spawn yt-dlp: ", "spawn yt-dlp ENOENT">>
MsgClipNotFound == <<"ffmpeg completed but clip file not found">>
MsgFfmpegExit(code) == <<"ffmpeg exited with code ", Digits[code + 1]>>
MsgSpawnFfmpeg == <<"Failed to spawn ffmpeg: ", "spawn ffmpeg ENOENT">>
MsgNotFound == <<"Job not found">>
MsgCannotCancel(status) == <<"Cannot cancel job with status: ", status>>
MsgValidation == <<"Validation failed">>

(***************************************************************************)
(* State.                                                                  *)
(***************************************************************************)
VARIABLES
    jobs,        \* data/jobs: job id -> record, for the ids that have a file
    fs,          \* the files in public/downloads and public/clips
    installed,   \* which of yt-dlp and ffmpeg `which` finds
    pipelines,   \* the processVideo calls: submit number -> its position and locals
    timers,      \* pending setTimeout(() => deleteJob(jobId), ms) callbacks,
                 \* in the order they come due
    nsubmit,     \* submit calls so far
    response,    \* what the last server function call returned
    log,         \* the saveJob / unlink calls of the last step, in order
    cancelled,   \* ids cancelled and not submitted again since
    retired,     \* submit numbers whose record was removed in a terminal status
    now,         \* Date.now(), in milliseconds
    videoIdMetadataCache,  \* the in-process Map: video id -> metadata
    metadataCacheFiles,    \* the <videoId>.metadata.json files: path -> text
    lookups,     \* the getMetadataFn calls that wait for their yt-dlp process
    lookupLog    \* the getMetadataFn calls that have returned, in order

vars ==
    <<jobs, fs, installed, pipelines, timers, nsubmit, response, log, cancelled,
      retired, now, videoIdMetadataCache, metadataCacheFiles, lookups, lookupLog>>

NoResponse ==
    [op |-> "none", ok |-> TRUE, input |-> <<>>, jobId |-> <<>>, job |-> <<>>,
     error |-> <<>>]

\* One entry per store call on id: the record before and after (<<>> = no
\* file), and who made the call: the submit number of the pipeline that made
\* it or set the timer, 0 for a server function.
Writes(id, by, stores) ==
    [i \in 1..(Len(stores) - 1) |->
        [id |-> id, by |-> by,
         pre |-> getJob(stores[i], id), post |-> getJob(stores[i + 1], id)]]

Terminal == {"completed", "failed"}

Init ==
    /\ jobs = <<>>
    /\ fs = {}
    /\ installed \in [ytDlp : BOOLEAN, ffmpeg : BOOLEAN]
    /\ pipelines = <<>>
    /\ timers = <<>>
    /\ nsubmit = 0
    /\ response = NoResponse
    /\ log = <<>>
    /\ cancelled = {}
    /\ retired = {}
    /\ now = 0
    /\ videoIdMetadataCache = <<>>
    /\ metadataCacheFiles = <<>>
    /\ lookups = <<>>
    /\ lookupLog = <<>>


(***************************************************************************)
(* Server functions (video.fn.ts).                                         *)
(***************************************************************************)
\* Outcomes of the fetchVideoMetadata call a real (not dry-run) caller waits
\* for: metadata, null (tool exit code or unparsable output), or a rejected
\* promise (the tool could not be spawned).
MetaOutcomes == {"metadata", "null", "reject"}

NoMetadata == <<>>
Metadata(duration, isDownloaded) ==
    <<[duration |-> duration, isDownloaded |-> isDownloaded]>>

\* getMetadataCachePath
getMetadataCachePath(videoId) == <<DOWNLOADS_DIR, videoId, ".metadata.json">>

\* JSON.stringify(metadata, null, 2), and JSON.parse of the text of a cache
\* file.
JSONstringify(metadata) ==
    <<"{", "duration:", metadata.duration, "isDownloaded:", metadata.isDownloaded, "}">>
JSONparse(text) == [duration |-> text[3], isDownloaded |-> text[5]]

\* map.set(key, value); writeFileSync(path, text)
MapSet(map, key, value) ==
    [k \in DOMAIN map \cup {key} |-> IF k = key THEN value ELSE map[k]]

\* What a call of fetchVideoMetadata leaves: whether it has started yt-dlp and
\* waits for it (spawned), whether its promise is rejected, the metadata it
\* resolves with (<<>>: null), the Map and the cache files after it.
Lookup(spawned, rejected, metadata, memo, cacheFiles) ==
    [spawned |-> spawned, rejected |-> rejected, metadata |-> metadata,
     memo |-> memo, cacheFiles |-> cacheFiles]

\* fetchVideoMetadata that looks neither in the Map nor for the cache file.
fetchVideoMetadataStartUncached(memo, cacheFiles, url, dryRun) ==
    LET videoId == extractVideoId(url)
    IN IF videoId = NoVideoId THEN Lookup(FALSE, FALSE, NoMetadata, memo, cacheFiles)
       ELSE IF dryRun
         THEN Lookup(FALSE, FALSE, Metadata(generateMockDuration(videoId), FALSE),
                     memo, cacheFiles)
       ELSE Lookup(TRUE, FALSE, NoMetadata, memo, cacheFiles)

\* fetchVideoMetadata(url, dryRun) up to its return or to the point where it
\* has started yt-dlp and waits for it.
fetchVideoMetadataStart(memo, cacheFiles, url, dryRun) ==
    LET videoId == extractVideoId(url)
        cachePath == getMetadataCachePath(videoId)
    IN IF videoId = NoVideoId THEN Lookup(FALSE, FALSE, NoMetadata, memo, cacheFiles)
       ELSE IF dryRun
         THEN Lookup(FALSE, FALSE, Metadata(generateMockDuration(videoId), FALSE),
                     memo, cacheFiles)
       ELSE IF videoId \in DOMAIN memo
         THEN Lookup(FALSE, FALSE, <<memo[videoId]>>, memo, cacheFiles)
       ELSE IF cachePath \in DOMAIN cacheFiles
         THEN LET cached == JSONparse(cacheFiles[cachePath])
              IN Lookup(FALSE, FALSE, <<cached>>, MapSet(memo, videoId, cached),
                        cacheFiles)
       ELSE Lookup(TRUE, FALSE, NoMetadata, memo, cacheFiles)

\* The end of the yt-dlp process of a lookup: ytDlp.on("close") with the
\* metadata ("metadata"), with an exit code or unparsable output ("null"), or
\* ytDlp.on("error") ("reject").  files is the directory as it is then.
fetchVideoMetadataClose(memo, cacheFiles, files, url, outcome) ==
    LET videoId == extractVideoId(url)
        isDownloaded == findExistingVideo(files, videoId) # <<>>
        metadata == Metadata(RealDuration[videoId], isDownloaded)
    IN IF outcome = "metadata"
         THEN Lookup(FALSE, FALSE, metadata, MapSet(memo, videoId, metadata[1]),
                     MapSet(cacheFiles, getMetadataCachePath(videoId),
                            JSONstringify(metadata[1])))
       ELSE Lookup(FALSE, outcome = "reject", NoMetadata, memo, cacheFiles)

\* fetchVideoMetadata(url, dryRun) from call to settled promise, with the
\* outcome of the tool if it starts it.
fetchVideoMetadata(memo, cacheFiles, files, url, dryRun, outcome) ==
    LET started == fetchVideoMetadataStart(memo, cacheFiles, url, dryRun)
    IN IF started.spawned
         THEN fetchVideoMetadataClose(memo, cacheFiles, files, url, outcome)
       ELSE started

\* The locals of processVideo(jobId) once it has read the job and waits for
\* checkDependencies.
StartPipeline(job) ==
    [id |-> job.id, url |-> job.url, startTime |-> job.startTime,
     endTime |-> job.endTime, formatId |-> job.formatId, dryRun |-> job.dryRun,
     pc |-> "deps", progress |-> 0, downloadedFile |-> <<>>, outputFile |-> <<>>,
     elapsed |-> 0]

\* getJobStatusFn answering with whatever record the store has first.
getJobStatusFnAny(js, jobId) ==
    IF DOMAIN js = {} THEN <<>> ELSE <<js[CHOOSE x \in DOMAIN js : TRUE]>>

\* getJobStatusFn: the record, or <<>> (null) when the id has no file.
getJobStatusFn(js, jobId) == getJob(js, jobId)

\* A call of getJobStatusFn.
GetStatus(jobId) ==
    /\ response' = [NoResponse EXCEPT !.op = "getStatus", !.jobId = jobId,
                                      !.job = getJobStatusFn(jobs, jobId)]
    /\ log' = <<>>
    /\ UNCHANGED <<jobs, fs, installed, pipelines, timers, nsubmit, cancelled,
                   retired, now, videoIdMetadataCache, metadataCacheFiles, lookups,
                   lookupLog>>

\* The guard without its second disjunct.
CancellableUnlessCompleted(status) == ~(status = "completed")

\* !(job.status === "completed" || job.status === "failed")
Cancellable(status) == ~(status = "completed" \/ status = "failed")

\* cancelJobFn
Cancel(jobId) ==
    LET job == getJob(jobs, jobId)
    IN /\ IF job = <<>>
            THEN /\ response' = [NoResponse EXCEPT !.op = "cancel", !.ok = FALSE,
                                       !.jobId = jobId, !.error = MsgNotFound]
                 /\ log' = <<>>
                 /\ UNCHANGED <<jobs, cancelled, retired>>
          ELSE IF ~Cancellable(job[1].status)
            THEN /\ response' = [NoResponse EXCEPT !.op = "cancel", !.ok = FALSE,
                                       !.jobId = jobId,
                                       !.error = MsgCannotCancel(job[1].status)]
                 /\ log' = <<>>
                 /\ UNCHANGED <<jobs, cancelled, retired>>
          ELSE LET js1 == updateJobStatus(jobs, jobId, "failed",
                                          [error |-> MsgCancelled])
                   js2 == deleteJob(js1, jobId)
               IN /\ jobs' = js2
                  /\ log' = Writes(jobId, 0, <<jobs, js1, js2>>)
                  /\ response' = [NoResponse EXCEPT !.op = "cancel", !.jobId = jobId]
                  /\ cancelled' = cancelled \cup {jobId}
                  /\ retired' = retired \cup {job[1].gen}
       /\ UNCHANGED <<fs, installed, pipelines, timers, nsubmit, now,
                      videoIdMetadataCache, metadataCacheFiles, lookups, lookupLog>>

(***************************************************************************)
(* The pipeline (processVideo, downloadVideo, clipVideo).                  *)
(***************************************************************************)
Timer(id, g, ms) == [id |-> id, ms |-> ms, gen |-> g]

\* The places a new timer can take among the pending ones: it comes due
\* after every timer set earlier with the same or a shorter delay, and before
\* or after one set earlier with a longer delay, depending on how long ago.
InsertAt(queue, t) ==
    {k \in 1..(Len(queue) + 1) : \A i \in k..Len(queue) : queue[i].ms > t.ms}

Insert(queue, t, k) ==
    SubSeq(queue, 1, k - 1) \o <<t>> \o SubSeq(queue, k, Len(queue))

\* The end of a pipeline callback: the store after its writes, the new
\* locals (a call that has returned has none left), the timers it set, and
\* the metadata caches as its lookup, if it made one, left them.
StepLookup(g, stores, p2, newTimers, memo, cacheFiles) ==
    /\ jobs' = stores[Len(stores)]
    /\ log' = Writes(pipelines[g].id, g, stores)
    /\ pipelines' = IF p2.pc = "done"
                      THEN [x \in DOMAIN pipelines \ {g} |-> pipelines[x]]
                    ELSE [pipelines EXCEPT ![g] = p2]
    /\ IF newTimers = <<>> THEN timers' = timers
       ELSE \E k \in InsertAt(timers, newTimers[1]) :
                timers' = Insert(timers, newTimers[1], k)
    /\ response' = NoResponse
    /\ videoIdMetadataCache' = memo
    /\ metadataCacheFiles' = cacheFiles
    /\ UNCHANGED <<installed, nsubmit, cancelled, retired, now, lookups, lookupLog>>

\* A callback that makes no metadata lookup.
Step(g, stores, p2, newTimers) ==
    StepLookup(g, stores, p2, newTimers, videoIdMetadataCache, metadataCacheFiles)

\* What a stretch of processVideo between two waits leaves behind: the store
\* after each of its writes, its locals (pc "done": it has returned), the
\* delay of the cleanup timer it set, if any, and the metadata caches.
Going(stores, p2) ==
    [stores |-> stores, p |-> p2, ms |-> <<>>,
     memo |-> videoIdMetadataCache, cacheFiles |-> metadataCacheFiles]

Last(stores) == stores[Len(stores)]

\* The catch block without its updateJobStatus call.
CaughtUnrecorded(p, stores, message) ==
    [stores |-> stores, p |-> [p EXCEPT !.pc = "done"], ms |-> <<FAILED_CLEANUP_MS>>,
     memo |-> videoIdMetadataCache, cacheFiles |-> metadataCacheFiles]

\* The catch block of processVideo, after the writes in stores.
Caught(p, stores, message) ==
    [stores |-> Append(stores, updateJobStatus(Last(stores), p.id, "failed",
                                               [error |-> message])),
     p |-> [p EXCEPT !.pc = "done"],
     ms |-> <<FAILED_CLEANUP_MS>>,
     memo |-> videoIdMetadataCache, cacheFiles |-> metadataCacheFiles]

\* "Mark as completed" taking the clip for the final file in every case.
CompletedAsClip(p, stores, downloadedFile, outputFile, isFullVideo) ==
    [stores |-> Append(stores,
                    updateJobStatus(Last(stores), p.id, "completed",
                        [downloadedFile |-> PublicDownload(downloadedFile),
                         clippedFile |-> PublicClip(outputFile),
                         progress |-> 100])),
     p |-> [p EXCEPT !.pc = "done"],
     ms |-> <<COMPLETED_CLEANUP_MS>>,
     memo |-> videoIdMetadataCache, cacheFiles |-> metadataCacheFiles]

\* "Mark as completed" and the cleanup timer, after the writes in stores.
Completed(p, stores, downloadedFile, outputFile, isFullVideo) ==
    [stores |-> Append(stores,
                    updateJobStatus(Last(stores), p.id, "completed",
                        [downloadedFile |-> PublicDownload(downloadedFile),
                         clippedFile |-> IF isFullVideo
                                           THEN PublicDownload(downloadedFile)
                                           ELSE PublicClip(outputFile),
                         progress |-> 100])),
     p |-> [p EXCEPT !.pc = "done"],
     ms |-> <<COMPLETED_CLEANUP_MS>>,
     memo |-> videoIdMetadataCache, cacheFiles |-> metadataCacheFiles]

Run(g, stretch) ==
    \E r \in {stretch} :
        StepLookup(g, r.stores, r.p,
                   IF r.ms = <<>> THEN <<>> ELSE <<Timer(pipelines[g].id, g, r.ms[1])>>,
                   r.memo, r.cacheFiles)

Catch(g, stores, message) == Run(g, Caught(pipelines[g], stores, message))

Complete(g, stores, downloadedFile, outputFile, isFullVideo) ==
    Run(g, Completed(pipelines[g], stores, downloadedFile, outputFile, isFullVideo))

\* checkDependencies taking every tool for installed.
checkDependenciesAssumed(dryRun) == [ytDlp |-> TRUE, ffmpeg |-> TRUE]

checkDependencies(dryRun) ==
    IF dryRun THEN [ytDlp |-> TRUE, ffmpeg |-> TRUE] ELSE installed

\* The clip cache check that never finds the clip.
ClipExistsNever(files, outputFile) == FALSE

\* clipVideo: "Check if clip already exists"
ClipExists(files, outputFile) == existsSync(files, outputFile)

\* processVideo from the point where downloadVideo has returned and
\* fetchVideoMetadata has resolved or rejected, through the full-video test
\* into clipVideo up to its first wait, or to the end.
AfterDownload(p, stores, lookup) ==
    LET startSeconds == HmsToSeconds(p.startTime)
        endSeconds == HmsToSeconds(p.endTime)
        metadata == lookup.metadata
        diff == IF metadata = <<>> THEN 0 ELSE endSeconds - metadata[1].duration
        isFullVideo ==
            /\ startSeconds = 0
            /\ metadata # <<>>
            /\ (IF diff < 0 THEN -diff ELSE diff) < 2
        js1 == updateJobStatus(Last(stores), p.id, "clipping", [progress |-> 50])
        outputFile == ClipOutputFile(p.downloadedFile, p.startTime, p.endTime)
        stretch ==
          IF lookup.rejected THEN Caught(p, stores, MsgMetaSpawn)
          ELSE IF isFullVideo
            THEN Completed(p,
                           Append(stores, updateJobStatus(Last(stores), p.id, "clipping",
                                                          [progress |-> 100])),
                           p.downloadedFile, p.downloadedFile, TRUE)
          ELSE IF p.dryRun
            THEN Going(Append(stores, js1),
                       [p EXCEPT !.pc = "clip_dry", !.progress = 50,
                                 !.outputFile = outputFile])
          ELSE IF ClipExists(fs, outputFile)
            THEN Completed(p,
                           stores \o
                           <<js1, updateJobStatus(js1, p.id, "clipping", [progress |-> 100])>>,
                           p.downloadedFile, outputFile, FALSE)
          ELSE Going(Append(stores, js1),
                     [p EXCEPT !.pc = "clip_run", !.outputFile = outputFile])
    IN [stretch EXCEPT !.memo = lookup.memo, !.cacheFiles = lookup.cacheFiles]

\* processVideo from the point where downloadVideo has returned: it calls
\* fetchVideoMetadata, and runs on when that returns without waiting.
AfterFetch(p, stores) ==
    LET lookup == fetchVideoMetadataStart(videoIdMetadataCache, metadataCacheFiles,
                                          p.url, p.dryRun)
    IN IF lookup.spawned THEN Going(stores, [p EXCEPT !.pc = "meta"])
       ELSE AfterDownload(p, stores, lookup)

\* processVideo from the point where checkDependencies has resolved, on into
\* downloadVideo up to its first wait.
AfterDeps(p, stores) ==
    LET deps == checkDependencies(p.dryRun)
        js1 == updateJobStatus(Last(stores), p.id, "downloading", [progress |-> 0])
        videoId == extractVideoId(p.url)
        existingVideo == findExistingVideo(fs, videoId)
    IN IF ~deps.ytDlp THEN Caught(p, stores, MsgNoYtDlp)
       ELSE IF ~deps.ffmpeg THEN Caught(p, stores, MsgNoFfmpeg)
       ELSE IF videoId = NoVideoId THEN Caught(p, Append(stores, js1), MsgNoVideoId)
       ELSE IF p.dryRun
         THEN Going(Append(stores, js1), [p EXCEPT !.pc = "dl_dry", !.progress = 0])
       ELSE IF existingVideo # <<>>
         THEN AfterFetch([p EXCEPT !.downloadedFile = existingVideo],
                         stores \o
                         <<js1, updateJobStatus(js1, p.id, "downloading",
                                                [progress |-> 50])>>)
       ELSE Going(Append(stores, js1), [p EXCEPT !.pc = "dl_run"])

\* The two "which" processes have closed.
DepsDone(g) ==
    /\ pipelines[g].pc = "deps"
    /\ UNCHANGED fs
    /\ Run(g, AfterDeps(pipelines[g], <<jobs>>))

\* processVideoFn.  The metadata lookup it awaits first neither reads nor
\* writes the job store, so the lookup and the rest are one step.  With
\* dryRun, checkDependencies resolves without waiting for anything outside
\* the process, so processVideo runs on into downloadVideo before any other
\* request is served.
Submit(input, outcome) ==
    /\ nsubmit < MaxSubmits
    /\ nsubmit' = nsubmit + 1
    /\ LET parsed == Parsed[input]
       IN IF parsed = <<>>
            THEN /\ response' = [NoResponse EXCEPT !.op = "submit", !.input = <<input>>,
                                                   !.ok = FALSE,
                                                   !.error = MsgValidation]
                 /\ log' = <<>>
                 /\ UNCHANGED <<jobs, pipelines, timers, cancelled,
                                videoIdMetadataCache, metadataCacheFiles>>
          ELSE \E lookup \in {fetchVideoMetadata(videoIdMetadataCache,
                                                 metadataCacheFiles, fs, parsed[1].url,
                                                 parsed[1].dryRun, outcome)} :
               /\ videoIdMetadataCache' = lookup.memo
               /\ metadataCacheFiles' = lookup.cacheFiles
               /\ IF lookup.rejected
                    THEN /\ response' = [NoResponse EXCEPT !.op = "submit",
                                                           !.input = <<input>>,
                                                           !.ok = FALSE,
                                                           !.error = MsgMetaSpawn]
                         /\ log' = <<>>
                         /\ UNCHANGED <<jobs, pipelines, timers, cancelled>>
                  ELSE LET data == parsed[1]
                           metadata == lookup.metadata
                           gen == nsubmit + 1
                           js == createJob(jobs, data, metadata, gen, now)
                           job == NewJob(data, metadata, gen, now)
                           p == StartPipeline(getJob(js, job.id)[1])
                       IN \E r \in {IF p.dryRun THEN AfterDeps(p, <<js>>)
                                    ELSE Going(<<js>>, p)} :
                          /\ jobs' = Last(r.stores)
                          /\ log' = Writes(job.id, 0, <<jobs, js>>)
                                    \o Writes(job.id, gen, r.stores)
                          /\ pipelines' =
                                IF r.p.pc = "done" THEN pipelines
                                ELSE [g \in DOMAIN pipelines \cup {gen} |->
                                         IF g = gen THEN r.p ELSE pipelines[g]]
                          /\ IF r.ms = <<>> THEN timers' = timers
                             ELSE \E k \in InsertAt(timers,
                                                    Timer(job.id, gen, r.ms[1])) :
                                      timers' = Insert(timers,
                                                       Timer(job.id, gen, r.ms[1]), k)
                          /\ response' = [NoResponse EXCEPT !.op = "submit",
                                                            !.input = <<input>>,
                                                            !.jobId = job.id,
                                                            !.job = <<job>>]
                          /\ cancelled' = cancelled \ {job.id}
    /\ UNCHANGED <<fs, installed, retired, now, lookups, lookupLog>>

\* One turn of the simulated download loop: delay(200) is over.  After the
\* last turn the mock metadata is there without waiting, so processVideo runs
\* on into clipVideo.
DlDryStep(g) ==
    LET p == pipelines[g]
        js1 == updateJobStatus(jobs, p.id, "downloading", [progress |-> p.progress])
    IN /\ p.pc = "dl_dry"
       /\ UNCHANGED fs
       /\ IF p.progress + 10 <= 50
            THEN Step(g, <<jobs, js1>>, [p EXCEPT !.progress = p.progress + 10], <<>>)
          ELSE Run(g, AfterDownload(
                          [p EXCEPT !.downloadedFile =
                                        generateMockDownloadPath(extractVideoId(p.url))],
                          <<jobs, js1>>,
                          fetchVideoMetadataStart(videoIdMetadataCache,
                                                  metadataCacheFiles, p.url, p.dryRun)))


\* The progress callbacks: const job = getJob(jobId); if (job) { job.progress =
\* progress; saveJob(job); }
writeProgress(js, jobId, progress) ==
    LET job == getJob(js, jobId)
    IN IF job = <<>> THEN js ELSE saveJob(js, [job[1] EXCEPT !.progress = progress])

\* The output path the fetcher was given, with the container it chose, and
\* the file of one stream it downloads before merging.
FetchTarget(videoId) == <<DOWNLOADS_DIR>> \o DownloadName(videoId, FetchExt)
FetchStream(videoId) == <<DOWNLOADS_DIR, videoId, "_download", StreamTag, FetchExt>>

\* The lines of yt-dlp's output the handler looks for: a percentage (in
\* tenths of a percent), "[download] Destination: <path>" and
\* "[Merger] Merging formats into "<path>"".
PctLine(tenths) == [kind |-> "pct", pct |-> tenths, path |-> <<>>]
DestLine(path) == [kind |-> "dest", pct |-> 0, path |-> path]
MergeLine(path) == [kind |-> "merge", pct |-> 0, path |-> path]

\* A match that takes the last line of the chunk the regex matches.
LastMatch(chunk, kind) ==
    LET hits == {i \in DOMAIN chunk : chunk[i].kind = kind}
    IN IF hits = {} THEN <<>>
       ELSE <<chunk[CHOOSE i \in hits : \A j \in hits : j <= i]>>

\* output.match(regex) without the g flag: the first line of the chunk the
\* regex matches, as a sequence of length 0 (null) or 1.
FirstMatch(chunk, kind) ==
    LET hits == {i \in DOMAIN chunk : chunk[i].kind = kind}
    IN IF hits = {} THEN <<>>
       ELSE <<chunk[CHOOSE i \in hits : \A j \in hits : i <= j]>>

\* The chunks of output one "data" event can bring: a single line, or two
\* notifications together, in either order.
Chunks(videoId) ==
    {<<PctLine(c)>> : c \in Percents}
    \cup {<<DestLine(FetchStream(videoId))>>,
          <<DestLine(FetchTarget(videoId))>>,
          <<MergeLine(FetchTarget(videoId))>>,
          <<DestLine(FetchStream(videoId)), MergeLine(FetchTarget(videoId))>>,
          <<MergeLine(FetchTarget(videoId)), DestLine(FetchStream(videoId))>>,
          <<DestLine(FetchStream(videoId)), DestLine(FetchTarget(videoId))>>}

\* ytDlp.stdout.on("data")
FetchStdout(g, chunk) ==
    LET p == pipelines[g]
        progressMatch == FirstMatch(chunk, "pct")
        destMatch == FirstMatch(chunk, "dest")
        mergeMatch == FirstMatch(chunk, "merge")
        js1 == IF progressMatch # <<>>
                 THEN writeProgress(jobs, p.id, DownloadProgress(progressMatch[1].pct))
               ELSE jobs
        afterDest == IF destMatch # <<>> THEN destMatch[1].path ELSE p.downloadedFile
        afterMerge == IF mergeMatch # <<>> THEN mergeMatch[1].path ELSE afterDest
    IN /\ p.pc = "dl_run"
       /\ UNCHANGED fs
       /\ Step(g, <<jobs, js1>>, [p EXCEPT !.downloadedFile = afterMerge], <<>>)

\* ytDlp.on("close"): made is the file the fetcher left behind (<<>>: none),
\* found is what the directory scan returns when no path was captured.
FetchClose(g, code, made, found) ==
    LET p == pipelines[g]
        videoId == extractVideoId(p.url)
        fs2 == AddFile(fs, made)
        \* f.startsWith(`${videoId}_download.`)
        matches == {f \in readdirSync(fs2, DOWNLOADS_DIR) :
                        Len(f) >= 3 /\ f[1] = videoId /\ f[2] = "_download"}
        downloadedFile ==
            IF p.downloadedFile # <<>> THEN p.downloadedFile
            ELSE IF found # <<>> THEN <<DOWNLOADS_DIR>> \o found
            ELSE <<>>
    IN /\ p.pc = "dl_run"
       /\ code # 0 => made = <<>>
       /\ IF p.downloadedFile = <<>> /\ code = 0 /\ matches # {}
            THEN found \in matches
          ELSE found = <<>>
       /\ fs' = fs2
       /\ IF code = 0
            THEN IF downloadedFile # <<>> /\ existsSync(fs2, downloadedFile)
                   THEN Run(g, AfterFetch([p EXCEPT !.downloadedFile = downloadedFile],
                                          <<jobs>>))
                 ELSE Catch(g, <<jobs>>, MsgDownloadNotFound)
          ELSE Catch(g, <<jobs>>, MsgYtDlpExit(code))

\* ytDlp.on("error")
FetchError(g) ==
    /\ pipelines[g].pc = "dl_run"
    /\ UNCHANGED fs
    /\ Catch(g, <<jobs>>, MsgSpawnYtDlp)

\* The metadata lookup of a job without dryRun is over.
MetaDone(g, outcome) ==
    /\ pipelines[g].pc = "meta"
    /\ UNCHANGED fs
    /\ Run(g, AfterDownload(pipelines[g], <<jobs>>,
                            fetchVideoMetadataClose(videoIdMetadataCache,
                                                    metadataCacheFiles, fs,
                                                    pipelines[g].url, outcome)))

\* One turn of the simulated clip loop: delay(300) is over.
ClipDryStep(g) ==
    LET p == pipelines[g]
        js1 == updateJobStatus(jobs, p.id, "clipping", [progress |-> p.progress])
        videoId == basenameNoExt(p.downloadedFile)
        videoIdOnly == SelectSeq(videoId, LAMBDA t : t # "_download")
        mockPath == generateMockClipPath(videoIdOnly[1], p.startTime, p.endTime)
    IN /\ p.pc = "clip_dry"
       /\ UNCHANGED fs
       /\ IF p.progress + 10 <= 100
            THEN Step(g, <<jobs, js1>>, [p EXCEPT !.progress = p.progress + 10], <<>>)
          ELSE Complete(g, <<jobs, js1>>, p.downloadedFile, mockPath, FALSE)

\* ffmpeg.stderr.on("data") with a time= marker; the markers of one ffmpeg
\* run do not go back (elapsed is the last one).
ClipStderr(g, currentSeconds) ==
    LET p == pipelines[g]
        durationSeconds == HmsToSeconds(p.endTime) - HmsToSeconds(p.startTime)
        js1 == IF durationSeconds > 0
                 THEN writeProgress(jobs, p.id,
                                    ClipProgress(currentSeconds, durationSeconds))
               ELSE jobs
    IN /\ p.pc = "clip_run"
       /\ currentSeconds >= p.elapsed
       /\ UNCHANGED fs
       /\ Step(g, <<jobs, js1>>, [p EXCEPT !.elapsed = currentSeconds], <<>>)

\* ffmpeg.on("close"): made tells whether ffmpeg wrote its output file.
ClipClose(g, code, made) ==
    LET p == pipelines[g]
        fs2 == IF made THEN fs \cup {p.outputFile} ELSE fs
    IN /\ p.pc = "clip_run"
       /\ code # 0 => ~made
       /\ fs' = fs2
       /\ IF code = 0
            THEN IF existsSync(fs2, p.outputFile)
                   THEN Complete(g, <<jobs>>, p.downloadedFile, p.outputFile, FALSE)
                 ELSE Catch(g, <<jobs>>, MsgClipNotFound)
          ELSE Catch(g, <<jobs>>, MsgFfmpegExit(code))

\* ffmpeg.on("error")
ClipError(g) ==
    /\ pipelines[g].pc = "clip_run"
    /\ UNCHANGED fs
    /\ Catch(g, <<jobs>>, MsgSpawnFfmpeg)

(***************************************************************************)
(* Timers.                                                                 *)
(***************************************************************************)
\* The timer that comes due first runs: deleteJob(jobId).
TimerFire ==
    /\ timers # <<>>
    /\ LET js == deleteJob(jobs, timers[1].id)
       IN /\ jobs' = js
          /\ log' = Writes(timers[1].id, timers[1].gen, <<jobs, js>>)
    /\ timers' = Tail(timers)
    /\ retired' = IF /\ timers[1].id \in DOMAIN jobs
                     /\ jobs[timers[1].id].status \in Terminal
                    THEN retired \cup {jobs[timers[1].id].gen}
                  ELSE retired
    /\ response' = NoResponse
    /\ UNCHANGED <<fs, installed, pipelines, nsubmit, cancelled, now,
                   videoIdMetadataCache, metadataCacheFiles, lookups, lookupLog>>

FetchCloseAny(g) ==
    \E code \in ExitCodes :
        \E made \in {<<>>, FetchTarget(extractVideoId(pipelines[g].url))} :
            \E found \in {<<>>} \cup readdirSync(AddFile(fs, made), DOWNLOADS_DIR) :
                FetchClose(g, code, made, found)

Next ==
    \/ \E input \in Inputs, outcome \in MetaOutcomes : Submit(input, outcome)
    \/ \E jobId \in JobIds : Cancel(jobId)
    \/ \E g \in DOMAIN pipelines : DepsDone(g)
    \/ \E g \in DOMAIN pipelines : DlDryStep(g)
    \/ \E g \in DOMAIN pipelines :
          \E chunk \in Chunks(extractVideoId(pipelines[g].url)) : FetchStdout(g, chunk)
    \/ \E g \in DOMAIN pipelines : FetchCloseAny(g)
    \/ \E g \in DOMAIN pipelines : FetchError(g)
    \/ \E g \in DOMAIN pipelines, outcome \in MetaOutcomes : MetaDone(g, outcome)
    \/ \E g \in DOMAIN pipelines : ClipDryStep(g)
    \/ \E g \in DOMAIN pipelines, currentSeconds \in Elapsed :
          ClipStderr(g, currentSeconds)
    \/ \E g \in DOMAIN pipelines, code \in ExitCodes, made \in BOOLEAN :
          ClipClose(g, code, made)
    \/ \E g \in DOMAIN pipelines : ClipError(g)
    \/ TimerFire

Spec == Init /\ [][Next]_vars

(***************************************************************************)
(* The expiry sweep.  cleanupExpiredJobs is exported and called by nothing *)
(* in the library, so it is run here on the stores a restarted server can  *)
(* find 48 hours on: no pipeline and no timer is left, and the records and *)
(* files of two jobs on one video are there or not, each record in a       *)
(* status its pipeline could leave it in.                                  *)
(***************************************************************************)
SweepClip == [url |-> WatchUrl, start |-> T_0_10, end |-> T_0_30,
              formatId |-> NoFormat, dryRun |-> FALSE]
SweepWhole == [url |-> WatchUrl, start |-> T_0_00, end |-> T_17_26,
               formatId |-> NoFormat, dryRun |-> FALSE]
SweepInputs == <<SweepClip, SweepWhole>>

\* The times (ms) at which the two records were created.
SweepCreated == {0, 1}
\* The clock stops this long after the first deadline.
MaxPastDeadline == 2

SweepDownload == <<DOWNLOADS_DIR>> \o DownloadName(extractVideoId(WatchUrl), FetchExt)

\* The record of submit gen, created at time t, as its pipeline left it:
\* pending, failed at the fetch, or completed (the whole video for the
\* request that covers it, a clip for the other).
SweepRecord(gen, shape, t) ==
    LET job == NewJob(Parsed[SweepInputs[gen]][1], NoMetadata, gen, t)
        outputFile == ClipOutputFile(SweepDownload, job.startTime, job.endTime)
    IN CASE shape = "pending" -> job
         [] shape = "failed" ->
              ObjectAssign([job EXCEPT !.status = "failed"],
                           [error |-> MsgYtDlpExit(1)])
         [] shape = "completed" ->
              ObjectAssign([job EXCEPT !.status = "completed"],
                  [downloadedFile |-> PublicDownload(SweepDownload),
                   clippedFile |-> IF SweepInputs[gen] = SweepWhole
                                     THEN PublicDownload(SweepDownload)
                                     ELSE PublicClip(outputFile),
                   progress |-> 100])

SweepShapes == {"pending", "failed", "completed"}

\* The files the sweep can meet: the fetched video, the clip cut from it, and
\* a second container of the same video that no record names.
SweepFiles ==
    {SweepDownload,
     ClipOutputFile(SweepDownload, Parsed[SweepClip][1].start, Parsed[SweepClip][1].end),
     <<DOWNLOADS_DIR>> \o DownloadName(extractVideoId(WatchUrl), ".webm")}

SweepStores ==
    {js \in UNION {[D -> [shape : SweepShapes, t : SweepCreated]] :
                      D \in SUBSET (1..Len(SweepInputs))} : TRUE}

SweepInit ==
    /\ \E c \in SweepStores :
          jobs = [id \in {SweepRecord(g, c[g].shape, c[g].t).id : g \in DOMAIN c} |->
                     LET g == CHOOSE h \in DOMAIN c :
                                  SweepRecord(h, c[h].shape, c[h].t).id = id
                     IN SweepRecord(g, c[g].shape, c[g].t)]
    /\ fs \in SUBSET SweepFiles
    /\ installed = [ytDlp |-> TRUE, ffmpeg |-> TRUE]
    /\ pipelines = <<>>
    /\ timers = <<>>
    /\ nsubmit = MaxSubmits
    /\ response = NoResponse
    /\ log = <<>>
    /\ cancelled = {}
    /\ retired = {}
    /\ now = EXPIRY_DURATION
    /\ videoIdMetadataCache = <<>>
    /\ metadataCacheFiles = <<>>
    /\ lookups = <<>>
    /\ lookupLog = <<>>

\* Time passes.
Tick ==
    /\ now < EXPIRY_DURATION + MaxPastDeadline
    /\ now' = now + 1
    /\ UNCHANGED <<jobs, fs, installed, pipelines, timers, nsubmit, response, log,
                   cancelled, retired, videoIdMetadataCache, metadataCacheFiles,
                   lookups, lookupLog>>

\* One call of cleanupExpiredJobs().
Sweep ==
    \E r \in {cleanupExpiredJobs(jobs, fs, now)} :
        /\ jobs' = r.jobs
        /\ fs' = r.fs
        /\ response' = [NoResponse EXCEPT !.op = "cleanupExpiredJobs",
                                          !.ok = ~r.threw]
        /\ log' = <<>>
        /\ retired' = retired \cup
               {jobs[id].gen : id \in {x \in DOMAIN jobs \ DOMAIN r.jobs :
                                          jobs[x].status \in Terminal}}
        /\ UNCHANGED <<installed, pipelines, timers, nsubmit, cancelled, now,
                       videoIdMetadataCache, metadataCacheFiles, lookups, lookupLog>>

SweepNext == Tick \/ Sweep

SweepSpec == SweepInit /\ [][SweepNext]_vars

(***************************************************************************)
(* The sweep beside running jobs.  A job completed, the server restarted   *)
(* before the 5 s timer came due (the timer is gone, the record and the    *)
(* files stay), and the record's deadline has passed; requests and status  *)
(* polls come in again while the sweep may run at any moment.              *)
(***************************************************************************)
LiveSweepInit ==
    /\ jobs = saveJob(<<>>, SweepRecord(1, "completed", 0))
    /\ fs = {SweepDownload,
             ClipOutputFile(SweepDownload, Parsed[SweepClip][1].start,
                            Parsed[SweepClip][1].end)}
    /\ installed = [ytDlp |-> TRUE, ffmpeg |-> TRUE]
    /\ pipelines = <<>>
    /\ timers = <<>>
    /\ nsubmit = 1
    /\ response = NoResponse
    /\ log = <<>>
    /\ cancelled = {}
    /\ retired = {}
    /\ now = EXPIRY_DURATION + 1
    /\ videoIdMetadataCache = <<>>
    /\ metadataCacheFiles = <<>>
    /\ lookups = <<>>
    /\ lookupLog = <<>>

LiveSweepNext ==
    \/ Next
    \/ \E jobId \in JobIds : GetStatus(jobId)
    \/ Tick
    \/ Sweep

LiveSweepSpec == LiveSweepInit /\ [][LiveSweepNext]_vars

(***************************************************************************)
(* deleteFileFn (video.fn.ts).  A path string is the sequence of its       *)
(* pieces, "/" being a piece of its own; a file of the model is the name   *)
(* of its directory, relative to process.cwd() and with its last "/",      *)
(* followed by the pieces of its name.                                     *)
(***************************************************************************)
\* process.cwd()
Cwd == <<"/", "app">>

RECURSIVE SplitAtSep(_, _, _)
\* str.split("/"), cur being the segment under way
SplitAtSep(str, cur, acc) ==
    IF str = <<>> THEN Append(acc, cur)
    ELSE IF Head(str) = "/" THEN SplitAtSep(Tail(str), <<>>, Append(acc, cur))
    ELSE SplitAtSep(Tail(str), Append(cur, Head(str)), acc)

RECURSIVE ResolveSegments(_, _)
\* The segments of an absolute path without "", "." and "..": ".." takes the
\* segment before it away, and none at the root.
ResolveSegments(segs, acc) ==
    IF segs = <<>> THEN acc
    ELSE IF Head(segs) = <<>> \/ Head(segs) = <<".">>
      THEN ResolveSegments(Tail(segs), acc)
    ELSE IF Head(segs) = <<"..">>
      THEN ResolveSegments(Tail(segs),
                           IF acc = <<>> THEN acc ELSE SubSeq(acc, 1, Len(acc) - 1))
    ELSE ResolveSegments(Tail(segs), Append(acc, Head(segs)))

RECURSIVE JoinSegments(_)
JoinSegments(segs) ==
    IF segs = <<>> THEN <<>> ELSE <<"/">> \o Head(segs) \o JoinSegments(Tail(segs))

\* path.normalize of an absolute path that does not end in "/"
normalize(str) == JoinSegments(ResolveSegments(SplitAtSep(str, <<>>, <<>>), <<>>))

\* path.join(process.cwd(), "public", filePath)
JoinPublic(filePath) == normalize(Cwd \o <<"/", "public", "/">> \o filePath)

\* str.startsWith(prefix)
startsWith(str, prefix) ==
    Len(str) >= Len(prefix) /\ SubSeq(str, 1, Len(prefix)) = prefix

RECURSIVE Concat(_)
\* The pieces of a string as one string.
Concat(str) == IF str = <<>> THEN "" ELSE Head(str) \o Concat(Tail(str))

\* The file of the model a normalized absolute path names.
FileOf(str) ==
    LET segs == ResolveSegments(SplitAtSep(str, <<>>, <<>>), <<>>)
        dir == JoinSegments(SubSeq(segs, 1, Len(segs) - 1)) \o <<"/">>
        rel == IF startsWith(dir, Cwd \o <<"/">>)
                 THEN SubSeq(dir, Len(Cwd) + 2, Len(dir))
               ELSE dir
    IN IF segs = <<>> THEN <<"/">> ELSE <<Concat(rel)>> \o segs[Len(segs)]

\* The directories of the deployment: unlinkSync throws for them.
Directories ==
    {Cwd, Cwd \o <<"/", "public">>, Cwd \o <<"/", "public", "/", "downloads">>,
     Cwd \o <<"/", "public", "/", "clips">>,
     Cwd \o <<"/", "public", "/", "downloads", "-old">>, Cwd \o <<"/", "data">>}

MsgInvalidPath == <<"Invalid file path">>
MsgFileNotFound == <<"File not found">>
MsgIsDirectory == <<"EISDIR: illegal operation on a directory, unlink">>

\* deleteFileFn: what it throws (<<>>: nothing), and the file it unlinks
\* (<<>>: none), among the files and the metadata cache files there are.
deleteFileFn(files, cacheFiles, filePath) ==
    LET fullPath == JoinPublic(filePath)
        normalizedPath == normalize(fullPath)
        downloadsPath == normalize(Cwd \o <<"/", "public", "/", "downloads">>)
        clipsPath == normalize(Cwd \o <<"/", "public", "/", "clips">>)
        file == FileOf(fullPath)
    IN IF /\ ~startsWith(normalizedPath, downloadsPath)
          /\ ~startsWith(normalizedPath, clipsPath)
         THEN [error |-> MsgInvalidPath, unlinked |-> <<>>]
       ELSE IF fullPath \in Directories
         THEN [error |-> MsgIsDirectory, unlinked |-> <<>>]
       ELSE IF ~(existsSync(files, file) \/ file \in DOMAIN cacheFiles)
         THEN [error |-> MsgFileNotFound, unlinked |-> <<>>]
       ELSE [error |-> <<>>, unlinked |-> file]

\* A call of deleteFileFn.
DeleteFile(filePath) ==
    \E r \in {deleteFileFn(fs, metadataCacheFiles, filePath)} :
        /\ fs' = fs \ {r.unlinked}
        /\ metadataCacheFiles' =
              [f \in DOMAIN metadataCacheFiles \ {r.unlinked} |-> metadataCacheFiles[f]]
        /\ response' = [NoResponse EXCEPT !.op = "deleteFile", !.ok = (r.error = <<>>),
                                          !.input = <<filePath>>, !.error = r.error]
        /\ log' = <<>>
        /\ UNCHANGED <<jobs, installed, pipelines, timers, nsubmit, cancelled, retired,
                       now, videoIdMetadataCache, lookups, lookupLog>>

\* The files of the deployment the requests are about: a fetched file, a
\* clip, the metadata cache file of the item, and files that are neither in
\* public/downloads nor in public/clips.
DeleteDownload == FetchTarget(extractVideoId(WatchUrl))
DeleteClip == ClipOutputFile(DeleteDownload, Parsed[SweepClip][1].start,
                             Parsed[SweepClip][1].end)
DeleteCache == getMetadataCachePath(extractVideoId(WatchUrl))
OldDownload == <<"public/downloads-old/", "keep", ".mp4">>
PublicFile == <<"public/", "favicon", ".ico">>
DataFile == <<"data/", "notes", ".txt">>
DeleteFiles == {DeleteDownload, DeleteClip, OldDownload, PublicFile, DataFile}

\* filePath for a file of public/downloads or public/clips, as the downloads
\* page sends it.
RequestFor(file) ==
    <<IF file[1] = DOWNLOADS_DIR THEN "downloads" ELSE "clips", "/">> \o Tail(file)

DeleteRequests ==
    {RequestFor(DeleteDownload), RequestFor(DeleteClip), RequestFor(DeleteCache),
     <<"downloads", "/", ".", "/">> \o Tail(DeleteDownload),
     <<"clips", "/", "..", "/", "downloads", "/">> \o Tail(DeleteDownload),
     <<"downloads", "/", "missing", ".mp4">>,
     <<"downloads">>,
     <<"favicon", ".ico">>,
     <<"downloads", "/", "..", "/", "favicon", ".ico">>,
     <<"..", "/", "data", "/", "notes", ".txt">>,
     <<"downloads", "/", "..", "/", "..", "/", "data", "/", "notes", ".txt">>,
     <<"downloads", "-old", "/", "keep", ".mp4">>,
     <<"downloads", "/", "..", "/", "downloads", "-old", "/", "keep", ".mp4">>}

DeleteInit ==
    /\ jobs = <<>>
    /\ fs \in SUBSET DeleteFiles
    /\ installed = [ytDlp |-> TRUE, ffmpeg |-> TRUE]
    /\ pipelines = <<>>
    /\ timers = <<>>
    /\ nsubmit = MaxSubmits
    /\ response = NoResponse
    /\ log = <<>>
    /\ cancelled = {}
    /\ retired = {}
    /\ now = 0
    /\ videoIdMetadataCache = <<>>
    /\ metadataCacheFiles \in
          {<<>>, MapSet(<<>>, DeleteCache, JSONstringify(
                     Metadata(RealDuration[extractVideoId(WatchUrl)], TRUE)[1]))}
    /\ lookups = <<>>
    /\ lookupLog = <<>>

DeleteNext == \E filePath \in DeleteRequests : DeleteFile(filePath)

DeleteSpec == DeleteInit /\ [][DeleteNext]_vars

(***************************************************************************)
(* getMetadataFn (video.fn.ts): metadata lookups on their own, several at  *)
(* a time, the server restarting between them, and the fetched file of     *)
(* the item deleted from the downloads page meanwhile.                     *)
(***************************************************************************)
MaxLookups == 3

EmbedUrl == <<"https://", "www.", "youtube.com/embed/", "dQw4w9WgXcQ">>
SecondUrl == <<"https://", "youtu.be/", "ABCDEFGHIJK">>
LookupUrls == {WatchUrl, ShortUrl, EmbedUrl, SecondUrl, OtherUrl}

\* What lookupLog keeps of a call that has returned: the call, whether it
\* started yt-dlp, whether the Map held the item when it returned, whether it
\* threw, and the metadata it returned (<<>>: null).
Returned(url, dryRun, lookup, spawned) ==
    [url |-> url, videoId |-> extractVideoId(url), dryRun |-> dryRun,
     spawned |-> spawned, inMap |-> extractVideoId(url) \in DOMAIN videoIdMetadataCache,
     rejected |-> lookup.rejected, metadata |-> lookup.metadata]

\* getMetadataFn up to its return, or to the point where it waits for yt-dlp.
MetadataFn(url, dryRun) ==
    /\ Len(lookupLog) + Len(lookups) < MaxLookups
    /\ \E lookup \in {fetchVideoMetadataStart(videoIdMetadataCache, metadataCacheFiles,
                                              url, dryRun)} :
          /\ videoIdMetadataCache' = lookup.memo
          /\ metadataCacheFiles' = lookup.cacheFiles
          /\ IF lookup.spawned
               THEN /\ lookups' = Append(lookups, url)
                    /\ lookupLog' = lookupLog
                    /\ response' = NoResponse
             ELSE /\ lookups' = lookups
                  /\ lookupLog' = Append(lookupLog, Returned(url, dryRun, lookup, FALSE))
                  /\ response' = [NoResponse EXCEPT !.op = "getMetadata",
                                                    !.job = lookup.metadata]
    /\ log' = <<>>
    /\ UNCHANGED <<jobs, fs, installed, pipelines, timers, nsubmit, cancelled, retired,
                   now>>

\* The yt-dlp process of the k-th waiting call has ended.
MetadataFnClose(k, outcome) ==
    /\ k \in DOMAIN lookups
    /\ \E lookup \in {fetchVideoMetadataClose(videoIdMetadataCache, metadataCacheFiles,
                                              fs, lookups[k], outcome)} :
          /\ videoIdMetadataCache' = lookup.memo
          /\ metadataCacheFiles' = lookup.cacheFiles
          /\ lookupLog' = Append(lookupLog, Returned(lookups[k], FALSE, lookup, TRUE))
          /\ response' = [NoResponse EXCEPT !.op = "getMetadata",
                                            !.ok = ~lookup.rejected,
                                            !.job = lookup.metadata,
                                            !.error = IF lookup.rejected
                                                        THEN MsgMetaSpawn ELSE <<>>]
    /\ lookups' = SubSeq(lookups, 1, k - 1) \o SubSeq(lookups, k + 1, Len(lookups))
    /\ log' = <<>>
    /\ UNCHANGED <<jobs, fs, installed, pipelines, timers, nsubmit, cancelled, retired,
                   now>>

\* The server process ends and starts again: the Map is new, the calls that
\* waited, the pipelines and the timers are gone, the files stay.
Restart ==
    /\ videoIdMetadataCache # <<>> \/ lookups # <<>> \/ pipelines # <<>>
          \/ timers # <<>>
    /\ videoIdMetadataCache' = <<>>
    /\ lookups' = <<>>
    /\ pipelines' = <<>>
    /\ timers' = <<>>
    /\ response' = NoResponse
    /\ log' = <<>>
    /\ UNCHANGED <<jobs, fs, installed, nsubmit, cancelled, retired, now,
                   metadataCacheFiles, lookupLog>>

MetaInit ==
    /\ jobs = <<>>
    /\ fs \in {{}, {DeleteDownload}}
    /\ installed = [ytDlp |-> TRUE, ffmpeg |-> TRUE]
    /\ pipelines = <<>>
    /\ timers = <<>>
    /\ nsubmit = MaxSubmits
    /\ response = NoResponse
    /\ log = <<>>
    /\ cancelled = {}
    /\ retired = {}
    /\ now = 0
    /\ videoIdMetadataCache = <<>>
    /\ metadataCacheFiles = <<>>
    /\ lookups = <<>>
    /\ lookupLog = <<>>

MetaNext ==
    \/ \E url \in LookupUrls, dryRun \in BOOLEAN : MetadataFn(url, dryRun)
    \/ \E k \in DOMAIN lookups, outcome \in MetaOutcomes : MetadataFnClose(k, outcome)
    \/ Restart
    \/ DeleteFile(RequestFor(DeleteDownload))

MetaSpec == MetaInit /\ [][MetaNext]_vars

(***************************************************************************)
(* The format list fetchVideoMetadata builds from rawMetadata.formats.  A  *)
(* raw format has the fields the code reads; 0 stands for a size or a      *)
(* height the tool did not report.                                         *)
(***************************************************************************)
MaxFormats == 3

RawFormat(vcodec, acodec, height, filesize, filesize_approx, ext) ==
    [vcodec |-> vcodec, acodec |-> acodec, height |-> height, filesize |-> filesize,
     filesize_approx |-> filesize_approx, ext |-> ext]

\* The sizes a raw format comes with: none, an estimate only, or an exact one.
RawSizes == {<<0, 0>>, <<0, 30>>, <<10, 0>>, <<20, 0>>}
RawHeights == {360, 720}

\* Video-only streams, pre-merged formats, a video stream without height,
\* audio-only streams, and a storyboard (neither codec).
RawVariants ==
    {RawFormat("vp9", "none", h, z[1], z[2], "webm") : h \in RawHeights, z \in RawSizes}
    \cup {RawFormat("avc1", "mp4a", h, z[1], z[2], "mp4") : h \in RawHeights,
                                                            z \in RawSizes}
    \cup {RawFormat("avc1", "mp4a", 0, 20, 0, "mp4")}
    \cup {RawFormat("none", "mp4a", 0, z[1], z[2], "m4a") : z \in RawSizes}
    \cup {RawFormat("none", "none", 0, 0, 0, "mhtml")}

FormatIds == <<"f1", "f2", "f3">>

\* rawMetadata.formats: the variants in the order the tool lists them, each
\* with its format_id.
RawLists ==
    UNION {[1..n -> RawVariants] : n \in 0..MaxFormats}
WithIds(list) ==
    [i \in DOMAIN list |->
        [format_id |-> FormatIds[i], vcodec |-> list[i].vcodec,
         acodec |-> list[i].acodec, height |-> list[i].height,
         filesize |-> list[i].filesize, filesize_approx |-> list[i].filesize_approx,
         ext |-> list[i].ext]]

\* The {} the reduce starts from.
NoRawFormat ==
    [format_id |-> "", vcodec |-> "", acodec |-> "", height |-> 0, filesize |-> 0,
     filesize_approx |-> 0, ext |-> ""]

RECURSIVE reduceBestAudio(_, _)
\* audioFormats.reduce((prev, current) => (prev.filesize || 0) >
\* (current.filesize || 0) ? prev : current, {})
reduceBestAudio(audioFormats, prev) ==
    IF audioFormats = <<>> THEN prev
    ELSE reduceBestAudio(Tail(audioFormats),
                         IF prev.filesize > Head(audioFormats).filesize THEN prev
                         ELSE Head(audioFormats))

\* The test that lets every format of the resolution replace the one kept.
ReplacesKeptAlways(f, kept) == TRUE

\* (f.filesize || 0) > (resolutionMap.get(resKey).filesize || 0)
ReplacesKept(f, kept) == f.filesize > kept.filesize

RECURSIVE buildResolutionMap(_, _)
\* rawFormats.forEach: the format kept for each height so far.
buildResolutionMap(rawFormats, resolutionMap) ==
    IF rawFormats = <<>> THEN resolutionMap
    ELSE LET f == Head(rawFormats)
         IN buildResolutionMap(
                Tail(rawFormats),
                IF f.vcodec # "none" /\ f.height # 0
                   /\ (f.height \notin DOMAIN resolutionMap
                       \/ ReplacesKept(f, resolutionMap[f.height]))
                  THEN MapSet(resolutionMap, f.height, f)
                ELSE resolutionMap)

RECURSIVE SortDescending(_)
\* Array.from(keys).sort((a, b) => parseInt(b) - parseInt(a))
SortDescending(heights) ==
    IF heights = {} THEN <<>>
    ELSE LET top == CHOOSE h \in heights : \A k \in heights : k <= h
         IN <<top>> \o SortDescending(heights \ {top})

\* The entry pushed for the format kept for a resolution.
VideoEntry(res, f, bestAudioSize) ==
    LET videoSize == IF f.filesize # 0 THEN f.filesize ELSE f.filesize_approx
        isMerged == f.acodec # "none"
    IN [formatId |-> IF isMerged THEN <<f.format_id>> ELSE <<f.format_id, "+bestaudio">>,
        label |-> <<res, "p", " (", f.ext, ")">>,
        filesize |-> IF isMerged THEN videoSize ELSE videoSize + bestAudioSize,
        isAudioOnly |-> FALSE,
        ext |-> f.ext]

\* "Parse formats": the formats array of the metadata.
parseFormats(rawFormats) ==
    LET audioFormats == SelectSeq(rawFormats,
                                  LAMBDA f : f.vcodec = "none" /\ f.acodec # "none")
        bestAudio == reduceBestAudio(audioFormats, NoRawFormat)
        bestAudioSize == bestAudio.filesize
        audioOnly ==
            IF bestAudioSize > 0
              THEN <<[formatId |-> <<IF bestAudio.format_id # ""
                                       THEN bestAudio.format_id ELSE "bestaudio">>,
                      label |-> <<"Audio Only">>,
                      filesize |-> bestAudioSize,
                      isAudioOnly |-> TRUE,
                      ext |-> IF bestAudio.ext # "" THEN bestAudio.ext ELSE "m4a"]>>
            ELSE <<>>
        resolutionMap == buildResolutionMap(rawFormats, <<>>)
        sortedResolutions == SortDescending(DOMAIN resolutionMap)
    IN audioOnly \o
       [i \in DOMAIN sortedResolutions |->
           VideoEntry(sortedResolutions[i], resolutionMap[sortedResolutions[i]],
                      bestAudioSize)]

\* The tool has listed some formats; nothing is parsed yet.
FormatsInit ==
    /\ jobs = <<>>
    /\ fs = {}
    /\ installed = [ytDlp |-> TRUE, ffmpeg |-> TRUE]
    /\ pipelines = <<>>
    /\ timers = <<>>
    /\ nsubmit = MaxSubmits
    /\ \E list \in RawLists :
          response = [NoResponse EXCEPT !.input = <<WithIds(list)>>]
    /\ log = <<>>
    /\ cancelled = {}
    /\ retired = {}
    /\ now = 0
    /\ videoIdMetadataCache = <<>>
    /\ metadataCacheFiles = <<>>
    /\ lookups = <<>>
    /\ lookupLog = <<>>

\* The close handler parses the formats.
ParseFormats ==
    /\ response.op = "none"
    /\ response' = [response EXCEPT !.op = "parseFormats",
                                    !.job = parseFormats(response.input[1])]
    /\ UNCHANGED <<jobs, fs, installed, pipelines, timers, nsubmit, log, cancelled,
                   retired, now, videoIdMetadataCache, metadataCacheFiles, lookups,
                   lookupLog>>

FormatsNext == ParseFormats

FormatsSpec == FormatsInit /\ [][FormatsNext]_vars

(***************************************************************************)
(* The ids createJob gives two requests that pass the input schema.        *)
(***************************************************************************)
\* The url forms of two videos.
IdUrls ==
    {<<"https://", "www.", "youtube.com/watch?v=", v>> : v \in VideoIdTokens}
    \cup {<<"https://", "youtu.be/", v, "?si=x">> : v \in VideoIdTokens}
    \cup {<<"youtube.com/embed/", v>> : v \in VideoIdTokens}
    \cup {<<"http://", "youtube.com/shorts/", v>> : v \in VideoIdTokens}

\* Two start times and two end times in their mm:ss and hh:mm:ss spellings.
IdStarts ==
    {T_0_10, <<"0", "0", ":", "1", "0">>, T_00_00_10, <<"0", ":", "2", "0">>}
IdEnds ==
    {T_0_30, <<"0", "0", ":", "3", "0">>, T_00_00_30,
     <<"1", ":", "0", "0", ":", "3", "0">>}

IdRequests ==
    {[url |-> u, start |-> a, end |-> b, formatId |-> f, dryRun |-> FALSE] :
        u \in IdUrls, a \in IdStarts, b \in IdEnds, f \in {NoFormat, "18"}}

\* Two requests have come in.
IdInit ==
    /\ jobs = <<>>
    /\ fs = {}
    /\ installed = [ytDlp |-> TRUE, ffmpeg |-> TRUE]
    /\ pipelines = <<>>
    /\ timers = <<>>
    /\ nsubmit = MaxSubmits
    /\ \E first, second \in IdRequests :
          response = [NoResponse EXCEPT !.input = <<first, second>>]
    /\ log = <<>>
    /\ cancelled = {}
    /\ retired = {}
    /\ now = 0
    /\ videoIdMetadataCache = <<>>
    /\ metadataCacheFiles = <<>>
    /\ lookups = <<>>
    /\ lookupLog = <<>>

\* processVideoFn validates each and createJob builds its record; job holds
\* the two ids.
AssignIds ==
    /\ response.op = "none"
    /\ \A k \in 1..2 : inputSchema(response.input[k]) # <<>>
    /\ response' =
          [response EXCEPT
              !.op = "createJob",
              !.job = [k \in 1..2 |->
                          NewJob(inputSchema(response.input[k])[1], NoMetadata, k,
                                 now).id]]
    /\ UNCHANGED <<jobs, fs, installed, pipelines, timers, nsubmit, log, cancelled,
                   retired, now, videoIdMetadataCache, metadataCacheFiles, lookups,
                   lookupLog>>

IdNext == AssignIds

IdSpec == IdInit /\ [][IdNext]_vars

(***************************************************************************)
(* Requests after an earlier job on the video.  The earlier job had no     *)
(* formatId, so yt-dlp ran with -f bestvideo+bestaudio; it completed and   *)
(* its timer removed its record; the fetched file, the clip and the        *)
(* metadata caches stay.  While the fetched file is there no pipeline      *)
(* starts yt-dlp for the video, so the steps of a running yt-dlp are not   *)
(* among the steps.                                                        *)
(***************************************************************************)
EarlierFormat == NoFormat
EarlierDownload == FetchTarget(extractVideoId(WatchUrl))
EarlierClip ==
    ClipOutputFile(EarlierDownload, Parsed[SweepClip][1].start, Parsed[SweepClip][1].end)
EarlierMetadata == Metadata(RealDuration[extractVideoId(WatchUrl)], FALSE)[1]

ReuseInit ==
    /\ jobs = <<>>
    /\ fs \in {{EarlierDownload}, {EarlierDownload, EarlierClip}}
    /\ installed \in [ytDlp : BOOLEAN, ffmpeg : BOOLEAN]
    /\ pipelines = <<>>
    /\ timers = <<>>
    /\ nsubmit = 0
    /\ response = NoResponse
    /\ log = <<>>
    /\ cancelled = {}
    /\ retired = {}
    /\ now = 0
    /\ videoIdMetadataCache
          \in {<<>>, MapSet(<<>>, extractVideoId(WatchUrl), EarlierMetadata)}
    /\ metadataCacheFiles =
          IF videoIdMetadataCache = <<>> THEN <<>>
          ELSE MapSet(<<>>, getMetadataCachePath(extractVideoId(WatchUrl)),
                      JSONstringify(EarlierMetadata))
    /\ lookups = <<>>
    /\ lookupLog = <<>>

ReuseNext ==
    \/ \E input \in Inputs, outcome \in MetaOutcomes : Submit(input, outcome)
    \/ \E jobId \in JobIds : Cancel(jobId)
    \/ \E g \in DOMAIN pipelines : DepsDone(g)
    \/ \E g \in DOMAIN pipelines : DlDryStep(g)
    \/ \E g \in DOMAIN pipelines, outcome \in MetaOutcomes : MetaDone(g, outcome)
    \/ \E g \in DOMAIN pipelines : ClipDryStep(g)
    \/ \E g \in DOMAIN pipelines, currentSeconds \in Elapsed :
          ClipStderr(g, currentSeconds)
    \/ \E g \in DOMAIN pipelines, code \in ExitCodes, made \in BOOLEAN :
          ClipClose(g, code, made)
    \/ \E g \in DOMAIN pipelines : ClipError(g)
    \/ TimerFire

ReuseSpec == ReuseInit /\ [][ReuseNext]_vars

(***************************************************************************)
(* Progress.  A timer that has come due has its callback run by the event  *)
(* loop.  Whether a child process (which, yt-dlp, ffmpeg) ever exits is    *)
(* not up to the program: no fairness is put on the callbacks of the       *)
(* processes, on their output or on the server functions.                  *)
(***************************************************************************)
FairSpec == Init /\ [][Next]_vars /\ WF_vars(TimerFire)

(***************************************************************************)
(* Properties.  They read the last step from response (what the server      *)
(* function returned) and log (the store calls the step made, in order).   *)
(***************************************************************************)
Entries == {log[i] : i \in DOMAIN log}

MissingTool == ~installed.ytDlp \/ ~installed.ffmpeg

StatusSteps ==
    {<<"pending", "downloading">>, <<"downloading", "clipping">>,
     <<"clipping", "completed">>, <<"pending", "failed">>,
     <<"downloading", "failed">>, <<"clipping", "failed">>}

\* createJob putting a new record in the place of a completed or failed one.
Replaces(e) ==
    /\ e.by = 0
    /\ e.pre # <<>> /\ e.post # <<>>
    /\ e.pre[1].status \in Terminal
    /\ e.post[1].gen # e.pre[1].gen

\* C1: every store call that changes the status of a record makes one of the
\* steps pending->downloading, downloading->clipping, clipping->completed,
\* non-terminal->failed (a submit that replaces a completed or failed record
\* by a new job's record is not a change of that record).
C1_StatusSteps ==
    \A e \in Entries :
        (/\ e.pre # <<>> /\ e.post # <<>>
         /\ ~Replaces(e)
         /\ e.pre[1].status # e.post[1].status)
            => <<e.pre[1].status, e.post[1].status>> \in StatusSteps

\* C2: a submit that finds a record in a non-terminal status for its job id
\* returns that record, writes nothing to it and starts no pipeline.
C2_ResubmitReturnsExisting ==
    (/\ response.op = "submit" /\ response.ok
     /\ log[1].pre # <<>>
     /\ log[1].pre[1].status \notin Terminal)
        => /\ response.job = log[1].pre
           /\ \A e \in Entries : e.post = log[1].pre
           /\ nsubmit \notin DOMAIN pipelines

\* The request a successful submit validated.
Submitted == Parsed[response.input[1]][1]

SameRequest(g) ==
    /\ g < nsubmit
    /\ pipelines[g].url = Submitted.url
    /\ pipelines[g].startTime = Submitted.start
    /\ pipelines[g].endTime = Submitted.end

\* C3: a submit returns the job id of every earlier submit whose pipeline is
\* still running and whose url, normalized start and normalized end are the
\* same.
C3_SameRequestSameJobId ==
    (response.op = "submit" /\ response.ok)
        => \A g \in DOMAIN pipelines :
              SameRequest(g) => pipelines[g].id = response.jobId

\* C3 happens: the second submit spells the start time differently from the
\* normalized one the first job holds, and gets the first job's id.
C3_Witness ==
    /\ response.op = "submit" /\ response.ok
    /\ \E g \in DOMAIN pipelines :
          /\ SameRequest(g)
          /\ response.input[1].start # pipelines[g].startTime
          /\ pipelines[g].id = response.jobId

\* C4: no store call on a record that has not reached completed or failed
\* lowers its progress.
C4_ProgressNeverDecreases ==
    \A e \in Entries :
        (/\ e.pre # <<>> /\ e.post # <<>>
         /\ e.pre[1].status \notin Terminal)
            => e.post[1].progress >= e.pre[1].progress

\* C5: cancel on a pending, downloading or clipping job succeeds, writes
\* status failed with "Job cancelled by user", then removes the record in the
\* same step, so that getJobStatusFn finds nothing right after.
C5_CancelFailsAndRemoves ==
    [][\A jobId \in JobIds :
          (/\ Cancel(jobId)
           /\ jobId \in DOMAIN jobs
           /\ jobs[jobId].status \in {"pending", "downloading", "clipping"})
              => /\ response'.op = "cancel" /\ response'.ok
                 /\ Len(log') = 2
                 /\ log'[1].pre = <<jobs[jobId]>>
                 /\ log'[1].post =
                        <<[jobs[jobId] EXCEPT !.status = "failed",
                                              !.error = MsgCancelled]>>
                 /\ log'[2].pre = log'[1].post
                 /\ log'[2].post = <<>>
                 /\ getJobStatusFn(jobs', jobId) = <<>>]_vars

\* C5 happens: a downloading job has just been cancelled.
C5_Witness ==
    /\ response.op = "cancel" /\ response.ok
    /\ log # <<>>
    /\ log[1].pre # <<>>
    /\ log[1].pre[1].status = "downloading"
    /\ response.jobId \notin DOMAIN jobs

\* C6: while an id is cancelled and not submitted again, it has no record,
\* and no store call of a pipeline or of a cleanup timer finds or leaves one.
C6_CancelledStaysGone ==
    \A id \in cancelled :
        /\ getJobStatusFn(jobs, id) = <<>>
        /\ \A e \in Entries :
              (e.id = id /\ e.by # 0) => (e.pre = <<>> /\ e.post = <<>>)

\* C6 happens: the pipeline of a cancelled job has just ended (its cleanup
\* timer is pending) and its last write found no record.
C6_Witness ==
    /\ log # <<>>
    /\ log[1].id \in cancelled
    /\ log[1].by # 0
    /\ log[1].by \notin DOMAIN pipelines
    /\ \E i \in DOMAIN timers : timers[i].gen = log[1].by

\* C7: cancel on a completed or failed job returns the error naming that
\* status, writes nothing and leaves the record in place.
C7_CancelTerminalRefused ==
    [][\A jobId \in JobIds :
          (/\ Cancel(jobId)
           /\ jobId \in DOMAIN jobs
           /\ jobs[jobId].status \in {"completed", "failed"})
              => /\ response'.op = "cancel" /\ ~response'.ok
                 /\ response'.error = MsgCannotCancel(jobs[jobId].status)
                 /\ log' = <<>>
                 /\ jobs' = jobs]_vars

\* C7 happens: cancel has just been refused on a failed job, which is still
\* there.
C7_Witness ==
    /\ response.op = "cancel" /\ ~response.ok
    /\ response.error = MsgCannotCancel("failed")
    /\ response.jobId \in DOMAIN jobs
    /\ jobs[response.jobId].status = "failed"

\* C8: a store call made by the pipeline, or by the cleanup timer, of a job
\* whose record was removed in a terminal status changes nothing in the
\* record a later submit created.
C8_NewJobIndependent ==
    \A e \in Entries :
        (/\ e.by \in retired
         /\ e.pre # <<>>
         /\ e.pre[1].gen # e.by)
            => e.post = e.pre

\* C9: after a successful submit, the job it returned and the job
\* getJobStatusFn returns both have status pending and progress 0.
C9_SubmitThenGetPending ==
    (response.op = "submit" /\ response.ok)
        => /\ response.job[1].status = "pending"
           /\ response.job[1].progress = 0
           /\ getJobStatusFn(jobs, response.jobId) # <<>>
           /\ getJobStatusFn(jobs, response.jobId)[1].status = "pending"
           /\ getJobStatusFn(jobs, response.jobId)[1].progress = 0

ToolMessages == {MsgNoYtDlp, MsgNoFfmpeg}

JustCaught(g) ==
    /\ log # <<>>
    /\ Last(log).by = g
    /\ g \notin DOMAIN pipelines
    /\ \E i \in DOMAIN timers :
          timers[i].gen = g /\ timers[i].ms = FAILED_CLEANUP_MS

\* C11: when a pipeline ends in its catch block (it returns and sets the 30 s
\* timer) and the record is there, the step leaves the record failed with a
\* non-empty error, and no server function response carries the failure.
C11_FailureRecordedNotThrown ==
    [][\A g \in DOMAIN pipelines :
          (/\ g \notin DOMAIN pipelines'
           /\ \E i \in DOMAIN timers' :
                 timers'[i] = Timer(pipelines[g].id, g, FAILED_CLEANUP_MS)
           /\ getJob(jobs, pipelines[g].id) # <<>>)
              => /\ getJob(jobs', pipelines[g].id) # <<>>
                 /\ jobs'[pipelines[g].id].status = "failed"
                 /\ jobs'[pipelines[g].id].error # <<>>
                 /\ response'.ok]_vars

\* C11 happens: yt-dlp has just exited with code 1 and the downloading job
\* has become failed.
C11_Witness ==
    \E g \in 1..nsubmit :
        /\ JustCaught(g)
        /\ Last(log).pre # <<>>
        /\ Last(log).pre[1].status = "downloading"
        /\ Last(log).post # <<>>
        /\ Last(log).post[1].error = MsgYtDlpExit(1)


\* The files in the downloads directory that hold video videoId.
FetchedFiles(videoId) ==
    {<<DOWNLOADS_DIR>> \o DownloadName(videoId, VIDEO_EXTENSIONS[i]) :
        i \in DOMAIN VIDEO_EXTENSIONS} \cap fs

\* C12: when the dependency check of a job passes while a fetched file of its
\* video exists, downloadVideo returns that file in the same step without
\* starting yt-dlp: the pipeline is not left waiting for yt-dlp to fetch, it
\* holds the file as long as it runs, and the record, if there is one, is
\* written at status downloading with progress 0 and then 50 before anything
\* the rest of the step writes (clipping, completed or failed).
C12_CachedFetchSkipsFetcher ==
    [][\A g \in DOMAIN pipelines :
          (/\ DepsDone(g)
           /\ ~MissingTool
           /\ FetchedFiles(extractVideoId(pipelines[g].url)) # {})
              => /\ g \in DOMAIN pipelines'
                    => /\ pipelines'[g].pc \in {"meta", "clip_run"}
                       /\ pipelines'[g].downloadedFile
                              \in FetchedFiles(extractVideoId(pipelines[g].url))
                 /\ Len(log') >= 2
                 /\ getJob(jobs, pipelines[g].id) # <<>>
                        => /\ log'[1].post[1].status = "downloading"
                           /\ log'[1].post[1].progress = 0
                           /\ log'[2].post[1].status = "downloading"
                           /\ log'[2].post[1].progress = 50
                           /\ \A i \in 3..Len(log') :
                                 log'[i].post[1].status
                                     \in {"clipping", "completed", "failed"}]_vars

\* C12 happens: a pending job has just gone to downloading 0 and then 50 in
\* one step, and holds a file that exists.
C12_Witness ==
    /\ Len(log) = 2
    /\ log[1].pre # <<>> /\ log[1].pre[1].status = "pending"
    /\ log[2].post # <<>>
    /\ log[2].post[1].status = "downloading"
    /\ log[2].post[1].progress = 50
    /\ log[2].by \in DOMAIN pipelines
    /\ pipelines[log[2].by].pc = "meta"
    /\ pipelines[log[2].by].downloadedFile \in fs


\* The request of pipeline p starts at 0 and ends less than 2 seconds from
\* the duration of its video.
FullRange(p) ==
    LET diff == HmsToSeconds(p.endTime) - RealDuration[extractVideoId(p.url)]
    IN /\ HmsToSeconds(p.startTime) = 0
       /\ (IF diff < 0 THEN -diff ELSE diff) < 2

C14_MetadataUnavailableNeverFails ==
    [][\A g \in DOMAIN pipelines :
          \A outcome \in MetaOutcomes \ {"metadata"} :
              MetaDone(g, outcome)
                  => /\ ~\E i \in DOMAIN timers' :
                           timers'[i] = Timer(pipelines[g].id, g, FAILED_CLEANUP_MS)
                     /\ g \in DOMAIN pipelines' => pipelines'[g].pc = "clip_run"
                     /\ getJob(jobs, pipelines[g].id) # <<>>
                            => /\ getJob(jobs', pipelines[g].id) # <<>>
                               /\ jobs'[pipelines[g].id].status
                                     \in {"clipping", "completed"}]_vars


\* C15: a submit of a valid request succeeds, whatever its metadata lookup
\* did: it returns the id of a record that is now in the store.
C15_SubmitCreatesWhateverLookup ==
    (response.op = "submit" /\ response.input[1] \in ValidInputs)
        => /\ response.ok
           /\ response.job # <<>>
           /\ response.jobId = response.job[1].id
           /\ getJobStatusFn(jobs, response.jobId) # <<>>


\* The delay after which a record that reached status is to be deleted.
CleanupDelay(status) ==
    IF status = "completed" THEN COMPLETED_CLEANUP_MS ELSE FAILED_CLEANUP_MS

\* C16: a completed or failed record always has a cleanup timer pending for
\* it, and the timer that deletes a record finds it completed when it is the
\* 5 s timer and failed when it is the 30 s timer: the record stays until
\* the delay of its status is over and is gone after it.
C16_TerminalDeletedAfterItsDelay ==
    [][/\ \A id \in DOMAIN jobs' :
             jobs'[id].status \in Terminal
                 => \E i \in DOMAIN timers' : timers'[i].id = id
       /\ (TimerFire /\ getJob(jobs, timers[1].id) # <<>>)
             => /\ jobs[timers[1].id].status \in Terminal
                /\ timers[1].ms = CleanupDelay(jobs[timers[1].id].status)
                /\ getJobStatusFn(jobs', timers[1].id) = <<>>]_vars


\* The clip name the claim gives for source item videoId: videoId, "_clip_",
\* the two times with dashes for colons, and the extension.
ClipNameOfItem(videoId, startTime, endTime, ext) ==
    <<videoId, "_clip_">> \o ReplaceColons(startTime) \o <<"_to_">>
        \o ReplaceColons(endTime) \o <<ext>>

\* C17: a job for source item V whose fetched file is V_download.<ext> and
\* that completes through the transcode stage has a clippedFile named
\* V_clip_<start>_to_<end>.<ext>, colons of the times replaced by dashes.
C17_ClipNamedAfterItem ==
    [][\A g \in DOMAIN pipelines :
          LET p == pipelines[g]
              V == extractVideoId(p.url)
          IN (/\ p.pc \in {"clip_run", "clip_dry"}
              /\ g \notin DOMAIN pipelines'
              /\ \E i \in DOMAIN timers' :
                    timers'[i] = Timer(p.id, g, COMPLETED_CLEANUP_MS)
              /\ basename(p.downloadedFile)
                    = DownloadName(V, extname(p.downloadedFile))
              /\ getJob(jobs, p.id) # <<>>)
                 => /\ getJob(jobs', p.id) # <<>>
                    /\ jobs'[p.id].status = "completed"
                    /\ basename(jobs'[p.id].clippedFile)
                          = ClipNameOfItem(V, p.startTime, p.endTime,
                                           extname(p.downloadedFile))]_vars


\* C18: a record that carries an error message has status failed; no
\* pending, downloading, clipping or completed record has the error field
\* set, two pipelines on one id included.
C18_ErrorOnlyWhenFailed ==
    \A id \in DOMAIN jobs : jobs[id].error # <<>> => jobs[id].status = "failed"

\* The job of record id goes on from a file fetched earlier: its pipeline
\* went to the metadata lookup straight from the dependency check, so the
\* record is still downloading.
ReusedFetch(id) ==
    \E g \in DOMAIN pipelines :
        /\ pipelines[g].id = id
        /\ jobs[id].gen = g
        /\ pipelines[g].pc = "meta"
        /\ jobs[id].status = "downloading"

\* C19: a record has downloadedFile set if and only if its status is
\* clipping or completed or its job reused an already fetched file: every
\* clipping or completed record has it, and a record that has it is
\* clipping, completed or of a job that reused a file.
C19_DownloadedFileIffClippingOrLater ==
    \A id \in DOMAIN jobs :
        /\ jobs[id].status \in {"clipping", "completed"}
              => jobs[id].downloadedFile # <<>>
        /\ jobs[id].downloadedFile # <<>>
              => \/ jobs[id].status \in {"clipping", "completed"}
                 \/ ReusedFetch(id)

\* The records a sweep at this moment finds expired.
ExpiredIds == {id \in DOMAIN jobs : jobs[id].expiresAt < now}

\* The files the expired records reference.
ExpiredFiles ==
    {PublicPath(ref) :
        ref \in ({jobs[id].downloadedFile : id \in ExpiredIds}
                   \cup {jobs[id].clippedFile : id \in ExpiredIds}) \ {<<>>}}

\* C20: a run of the sweep removes the record of exactly the jobs whose
\* expiresAt is in the past and the files those records reference, leaves
\* every other record as it was and every other file in place, ends without
\* an error when a referenced file is already missing, and a second run
\* right after it changes nothing.
C20_SweepRemovesExactlyExpired ==
    [][Sweep =>
          /\ DOMAIN jobs' = DOMAIN jobs \ ExpiredIds
          /\ \A id \in DOMAIN jobs' : jobs'[id] = jobs[id]
          /\ fs' = fs \ ExpiredFiles
          /\ response'.ok
          /\ cleanupExpiredJobs(jobs', fs', now')
                = [jobs |-> jobs', fs |-> fs', threw |-> FALSE]]_vars

\* C20 happens: a sweep has just removed a completed or failed record, a
\* record whose deadline has not passed is still there, and the sweep ended
\* without an error.
C20_Witness ==
    /\ response.op = "cleanupExpiredJobs"
    /\ response.ok
    /\ retired # {}
    /\ \E id \in DOMAIN jobs : jobs[id].expiresAt >= now
    /\ fs # {}


\* The record of pipeline g is there and not in a terminal status.
ActiveJob(g) ==
    /\ getJob(jobs, pipelines[g].id) # <<>>
    /\ jobs[pipelines[g].id].status \in {"pending", "downloading", "clipping"}

\* C21: the sweep of an expired record never removes the fetched file that a
\* running job, pending, downloading or clipping, holds as the input of its
\* transcode stage.
C21_SweepSparesFileInUse ==
    [][Sweep =>
          \A g \in DOMAIN pipelines :
              (/\ ActiveJob(g)
               /\ ~pipelines[g].dryRun
               /\ pipelines[g].downloadedFile # <<>>
               /\ pipelines[g].downloadedFile \in fs)
                  => pipelines[g].downloadedFile \in fs']_vars


\* The progress the state-machine document gives for each status.
ProgressRange(status) ==
    CASE status = "pending" -> {0}
      [] status = "downloading" -> 0..50
      [] status = "clipping" -> 50..95
      [] status = "completed" -> {100}
      [] OTHER -> 0..100

\* C22: the progress of every record lies in the range of its status:
\* pending 0, downloading 0..50, clipping 50..95, completed 100.
C22_ProgressInRangeOfStatus ==
    \A id \in DOMAIN jobs : jobs[id].progress \in ProgressRange(jobs[id].status)


\* C23: cancel on an id that has no record is refused with "Job not found",
\* getStatus on such an id answers null, and neither changes a record or a
\* file.
C23_NoRecordNotFound ==
    [][\A jobId \in JobIds :
          getJob(jobs, jobId) = <<>>
              => /\ Cancel(jobId)
                    => /\ response'.op = "cancel" /\ ~response'.ok
                       /\ response'.error = MsgNotFound
                       /\ log' = <<>>
                       /\ jobs' = jobs /\ fs' = fs
                 /\ GetStatus(jobId)
                    => /\ response'.op = "getStatus"
                       /\ response'.job = <<>>
                       /\ log' = <<>>
                       /\ jobs' = jobs /\ fs' = fs]_vars

\* C23 happens: getStatus has just answered null for an id without a record
\* while another record is in the store.
C23_Witness ==
    /\ response.op = "getStatus"
    /\ response.job = <<>>
    /\ response.jobId \notin DOMAIN jobs
    /\ DOMAIN jobs # {}

\* C23 happens for cancel: it has just been refused for an id without a
\* record while a pipeline of that id is still running.
C23_WitnessCancel ==
    /\ response.op = "cancel" /\ ~response.ok
    /\ response.error = MsgNotFound
    /\ response.jobId \notin DOMAIN jobs
    /\ \E g \in DOMAIN pipelines : pipelines[g].id = response.jobId


\* C24: a store call that finds a completed or failed record either removes
\* it or leaves every field as it was; in particular the progress of a
\* failed record is not written again.  (A submit that puts a new job's
\* record in its place is not counted as a change of the old one.)
C24_TerminalRecordFrozen ==
    \A e \in Entries :
        (/\ e.pre # <<>>
         /\ e.pre[1].status \in Terminal
         /\ e.post # <<>>
         /\ e.post[1].gen = e.pre[1].gen)
            => e.post = e.pre


\* C25: no two pipelines run for one job id (each pipeline is at one place,
\* pc, of its two stages), and the store calls of a step that are not a
\* server function's are those of the one pipeline of the id.
C25_OnePipelinePerId ==
    /\ \A g, h \in DOMAIN pipelines :
          pipelines[g].id = pipelines[h].id => g = h
    /\ \A e \in Entries :
          (e.by # 0 /\ e.by \in DOMAIN pipelines)
              => \A h \in DOMAIN pipelines : pipelines[h].id = e.id => h = e.by


\* C26: no two pipelines have a fetcher process running that writes the
\* same download file: two running jobs on one video, of the same or of
\* different time ranges, never both are between the spawn of yt-dlp and its
\* close.
C26_OneFetcherPerFile ==
    \A g, h \in DOMAIN pipelines :
        (/\ pipelines[g].pc = "dl_run"
         /\ pipelines[h].pc = "dl_run"
         /\ FetchTarget(extractVideoId(pipelines[g].url))
               = FetchTarget(extractVideoId(pipelines[h].url)))
            => g = h


\* Pipeline g writes status to a record that did not have it, in this step.
Moves(g, status) ==
    \E i \in DOMAIN log' :
        /\ log'[i].by = g
        /\ log'[i].post # <<>>
        /\ log'[i].post[1].status = status
        /\ log'[i].pre # <<>> => log'[i].pre[1].status # status

C28_CompletedOnlyWithOutput ==
    [][\A g \in DOMAIN pipelines :
          ~pipelines[g].dryRun
              => /\ Moves(g, "completed")
                    => /\ jobs'[pipelines[g].id].clippedFile # <<>>
                       /\ PublicPath(jobs'[pipelines[g].id].clippedFile) \in fs'
                 /\ \A code \in ExitCodes, made \in BOOLEAN :
                       (/\ ClipClose(g, code, made)
                        /\ getJob(jobs, pipelines[g].id) # <<>>
                        /\ ~(code = 0 /\ pipelines[g].outputFile \in fs'))
                           => /\ jobs'[pipelines[g].id].status = "failed"
                              /\ jobs'[pipelines[g].id].error =
                                    (IF code = 0 THEN MsgClipNotFound
                                     ELSE MsgFfmpegExit(code))
                              /\ \A c \in ExitCodes :
                                    MsgClipNotFound # MsgFfmpegExit(c)]_vars


\* C29: when yt-dlp exits with a code N other than 0 the job is failed with
\* a message that holds N; when yt-dlp cannot be started the job is failed
\* with the spawn error's message, which is none of the exit messages; in
\* both cases the pipeline ends there, without a write of clipping.
C29_FetchFailureMessages ==
    [][\A g \in DOMAIN pipelines :
          LET id == pipelines[g].id
          IN getJob(jobs, id) # <<>>
                => /\ \A code \in ExitCodes \ {0} :
                         FetchClose(g, code, <<>>, <<>>)
                            => /\ jobs'[id].status = "failed"
                               /\ jobs'[id].error = MsgYtDlpExit(code)
                               /\ \E i \in DOMAIN jobs'[id].error :
                                     jobs'[id].error[i] = Digits[code + 1]
                               /\ g \notin DOMAIN pipelines'
                               /\ ~Moves(g, "clipping")
                   /\ FetchError(g)
                         => /\ jobs'[id].status = "failed"
                            /\ jobs'[id].error = MsgSpawnYtDlp
                            /\ \A c \in ExitCodes : jobs'[id].error # MsgYtDlpExit(c)
                            /\ g \notin DOMAIN pipelines'
                            /\ ~Moves(g, "clipping")]_vars

\* C29 happens: yt-dlp could not be started and the downloading job has
\* just become failed with the spawn error's message.
C29_Witness ==
    \E g \in 1..nsubmit :
        /\ JustCaught(g)
        /\ Last(log).pre # <<>>
        /\ Last(log).pre[1].status = "downloading"
        /\ Last(log).post # <<>>
        /\ Last(log).post[1].status = "failed"
        /\ Last(log).post[1].error = MsgSpawnYtDlp


\* The last destination or merge line of a chunk, as a sequence of length 0
\* or 1.
LastNotification(chunk) ==
    LET hits == {i \in DOMAIN chunk : chunk[i].kind \in {"dest", "merge"}}
    IN IF hits = {} THEN <<>>
       ELSE <<chunk[CHOOSE i \in hits : \A j \in hits : j <= i]>>

LinesOf(chunk, kind) == {i \in DOMAIN chunk : chunk[i].kind = kind}

C31_ClipProgressCapped ==
    [][\A g \in DOMAIN pipelines :
          (/\ pipelines[g].pc = "clip_run"
           /\ log' # <<>>
           /\ log'[1].by = g)
          => \A i \in DOMAIN log' :
                (/\ log'[i].pre # <<>>
                 /\ log'[i].post # <<>>
                 /\ log'[i].post[1].progress # log'[i].pre[1].progress)
                    => \/ log'[i].post[1].progress \in 50..95
                       \/ /\ log'[i].post[1].progress = 100
                          /\ log'[i].post[1].status = "completed"
                          /\ pipelines[g].outputFile \in fs'
                          /\ \E made \in BOOLEAN : ClipClose(g, 0, made)]_vars

\* C31 happens: ffmpeg has reported a time beyond the clip's duration and
\* the clipping record stands at 95.
C31_Witness ==
    \E g \in DOMAIN pipelines :
        /\ pipelines[g].pc = "clip_run"
        /\ pipelines[g].elapsed
              > HmsToSeconds(pipelines[g].endTime) - HmsToSeconds(pipelines[g].startTime)
        /\ log # <<>>
        /\ Last(log).by = g
        /\ Last(log).post # <<>>
        /\ Last(log).post[1].status = "clipping"
        /\ Last(log).post[1].progress = 95


C40_DeletesOnlyInside ==
    [][response'.op = "deleteFile"
          => /\ \A f \in (fs \ fs')
                         \cup (DOMAIN metadataCacheFiles \ DOMAIN metadataCacheFiles') :
                    f[1] \in {DOWNLOADS_DIR, CLIPS_DIR}
             /\ ~response'.ok
                    => fs' = fs /\ metadataCacheFiles' = metadataCacheFiles]_vars

\* The calls for the item that have returned its metadata so far (simulated
\* calls left aside), in order.
Succeeded(videoId) ==
    SelectSeq(lookupLog, LAMBDA e : e.videoId = videoId /\ ~e.dryRun /\ e.metadata # <<>>)

IsVideoOf(f, height) == f.vcodec # "none" /\ f.height = height
IsAudioOnly(f) == f.vcodec = "none" /\ f.acodec # "none"

\* C34: for every list of raw formats, the simplified list has at most one
\* video entry per resolution, made from a variant of that resolution whose
\* reported size (filesize) no other variant of the resolution exceeds, and at
\* most one audio-only entry, made from an audio-only variant whose reported
\* size no other audio-only variant exceeds.
C34_LargestPerResolution ==
    response.op = "parseFormats"
    => LET rawFormats == response.input[1]
           formats == response.job
           video == {i \in DOMAIN formats : ~formats[i].isAudioOnly}
           audio == {i \in DOMAIN formats : formats[i].isAudioOnly}
       IN /\ \A i, j \in video : formats[i].label[1] = formats[j].label[1] => i = j
          /\ \A i \in video :
                \E k \in DOMAIN rawFormats :
                   /\ IsVideoOf(rawFormats[k], formats[i].label[1])
                   /\ formats[i].formatId[1] = rawFormats[k].format_id
                   /\ \A m \in DOMAIN rawFormats :
                         IsVideoOf(rawFormats[m], formats[i].label[1])
                         => rawFormats[m].filesize <= rawFormats[k].filesize
          /\ Cardinality(audio) <= 1
          /\ \A i \in audio :
                \E k \in DOMAIN rawFormats :
                   /\ IsAudioOnly(rawFormats[k])
                   /\ formats[i].formatId[1] = rawFormats[k].format_id
                   /\ formats[i].filesize = rawFormats[k].filesize
                   /\ \A m \in DOMAIN rawFormats :
                         IsAudioOnly(rawFormats[m])
                         => rawFormats[m].filesize <= rawFormats[k].filesize

\* Three variants of one resolution with different sizes, the largest in the
\* middle, give one entry, made from the middle one.
C34_Witness ==
    /\ response.op = "parseFormats"
    /\ Len(response.input[1]) = 3
    /\ \A k \in 1..3 : IsVideoOf(response.input[1][k], 720)
    /\ response.input[1][1].filesize = 10
    /\ response.input[1][2].filesize = 20
    /\ response.input[1][3].filesize = 0
    /\ Len(response.job) = 1
    /\ response.job[1].formatId[1] = "f2"

\* The positions of a simulated pipeline, and those of a real one (waiting
\* for `which`, yt-dlp, the yt-dlp of the metadata lookup, or ffmpeg).
SimulatedSteps == {"dl_dry", "clip_dry"}
RealSteps == {"deps", "dl_run", "meta", "clip_run"}

\* C35: a job created with dryRun only takes simulated steps (it waits for no
\* external process and the artifact directories stay as they are), and a job
\* created without dryRun only takes real steps: every step a pipeline makes
\* on a record is of the kind the record was created with.
C35_SimulatedNeverMixed ==
    [][\A g \in DOMAIN pipelines :
          (log' # <<>> /\ log'[1].by = g)
          => /\ pipelines[g].pc \in
                   (IF pipelines[g].dryRun THEN SimulatedSteps ELSE RealSteps)
             /\ pipelines[g].dryRun => fs' = fs
             /\ \A i \in DOMAIN log' :
                   log'[i].post # <<>>
                   => (log'[i].post[1].dryRun <=> pipelines[g].dryRun)]_vars

\* C36: two requests get the same job id if and only if they name the same
\* video, the same start and the same end (as times, whatever their
\* spelling); the url form and the formatId play no part.
C36_IdOfItemAndRange ==
    response.op = "createJob"
    => LET first == response.input[1]
           second == response.input[2]
       IN (response.job[1] = response.job[2])
          <=> /\ extractVideoId(first.url) = extractVideoId(second.url)
              /\ timeToSeconds(first.start) = timeToSeconds(second.start)
              /\ timeToSeconds(first.end) = timeToSeconds(second.end)

\* Two requests for one video that differ in url form, in the spelling of
\* both times and in formatId have one id.
C36_Witness ==
    /\ response.op = "createJob"
    /\ response.input[1].url[Len(response.input[1].url)] = "dQw4w9WgXcQ"
    /\ response.input[2].url[2] = "youtu.be/"
    /\ response.input[1].start = T_0_10 /\ response.input[2].start = T_00_00_10
    /\ response.input[1].end = T_00_00_30 /\ response.input[2].end = T_0_30
    /\ response.input[1].formatId # response.input[2].formatId
    /\ response.job[1] = response.job[2]

\* C38: when the deletion a pipeline scheduled at its end (5 s after
\* completed, 30 s after failed) comes due, the record it removes, if any, is
\* not a record that a later submit of the id created and that is still
\* pending, downloading or clipping.
C38_TimerDeletesOwnTerminalRecord ==
    [][(TimerFire /\ timers[1].id \in DOMAIN jobs)
          => ~(/\ jobs[timers[1].id].gen > timers[1].gen
               /\ jobs[timers[1].id].status \in {"pending", "downloading", "clipping"})]_vars

EveryProcessExits == \A g \in 1..MaxSubmits : []<>(g \notin DOMAIN pipelines)

\* The id has a record in pending, downloading or clipping.
Underway(id) == id \in DOMAIN jobs /\ jobs[id].status \notin Terminal

\* C37: when every process the pipelines start exits or fails to spawn, a job
\* that has a record in pending, downloading or clipping and is not
\* cancelled eventually has a record in completed or failed.
C37_EventuallyTerminal ==
    EveryProcessExits
        => \A id \in JobIds :
              Underway(id) ~> (\/ id \in cancelled
                               \/ id \in DOMAIN jobs /\ jobs[id].status \in Terminal)

====
